---- MODULE Spec2Model ----
(***************************************************************************)
(* Between-Verses: per-person pose pipeline of script.js.                  *)
(*                                                                         *)
(* Times are integer milliseconds.  JavaScript null and                    *)
(* undefined are the strings NULL and UNDEFINED; every other string is a   *)
(* truthy JavaScript string.  An optional number (detectedInfo.conf) is a  *)
(* sequence of length 0 (missing) or 1.                                    *)
(***************************************************************************)
EXTENDS Integers, Sequences, FiniteSets, TLC

VARIABLES now, calls, poseFSM, fsmReturn, returnLog, lastDetected, fsmBefore,
          poses, lastFramePoses, lastResults, lastPrevious, matchLog,
          lastReordered,
          frameCount, personStates, lastLockedPoseByPerson,
          stickerAnim, animInput,
          lastBundleKey, lastSentAt, sentLog, bundleCalls, clockLead,
          posesKind, showTracking, showLine, drawThrew,
          delivered, consumedAfter,
          smoothStore, emaInput, smoothPos, smoothScale, emaCounts,
          personStableStates, personStableCounters, personOverlayImages,
          stableRun,
          poseDetector, detectRun,
          bridgeMsg, bridgeOsc, bridgeReply,
          oscWS, wsQueue, wsBackoffMs, wsTimers, wsWire, wsPassed,
          wsQueuedLog, wsErrors

vars == <<now, calls, poseFSM, fsmReturn, returnLog, lastDetected, fsmBefore,
          poses, lastFramePoses, lastResults, lastPrevious, matchLog,
          lastReordered,
          frameCount, personStates, lastLockedPoseByPerson,
          stickerAnim, animInput,
          lastBundleKey, lastSentAt, sentLog, bundleCalls, clockLead,
          posesKind, showTracking, showLine, drawThrew,
          delivered, consumedAfter,
          smoothStore, emaInput, smoothPos, smoothScale, emaCounts,
          personStableStates, personStableCounters, personOverlayImages,
          stableRun,
          poseDetector, detectRun,
          bridgeMsg, bridgeOsc, bridgeReply,
          oscWS, wsQueue, wsBackoffMs, wsTimers, wsWire, wsPassed,
          wsQueuedLog, wsErrors>>

(* fsmBefore is, for every slot, the phase and the candidate label the     *)
(* slot had when its last direct call of fsmUpdate began.                  *)

(* The state of the sticker animation and of the show-control relay. *)
animVars == <<stickerAnim, animInput>>
(* clockLead is what performance.now() reads when millis() reads 0: the    *)
(* time from the load of the page to the start of the sketch.              *)
bundleVars == <<lastBundleKey, lastSentAt, sentLog, bundleCalls, clockLead>>

(* The variable poses of script.js holds an array, null or undefined:      *)
(* posesKind tells which, and poses is the array (empty when it is null or *)
(* undefined).  showTracking and showLine are the two toggles, drawThrew   *)
(* tells whether the last draw() ended with a TypeError.                   *)
uiVars == <<showTracking, showLine, drawThrew>>

(* The number of detector callbacks since the last draw(), and the number  *)
(* of callbacks that preceded the last draw() since the one before.        *)
feedVars == <<delivered, consumedAfter>>

(* The smoothing store, the last emaPoint / emaScalar call made on it, the *)
(* two smoothing factors SMOOTH_POS and SMOOTH_SCALE as configured, and    *)
(* for every slot and key the number of emaPoint calls the last rendered   *)
(* frame made on it.                                                       *)
emaVars == <<smoothStore, emaInput, smoothPos, smoothScale, emaCounts>>

(* The per-person arrays of the frame-count debounce, and for every slot   *)
(* the state detected last with the number of consecutive frames it has    *)
(* been detected.                                                          *)
stableVars == <<personStableStates, personStableCounters, personOverlayImages,
                stableRun>>

(* The PoseDetector object of app.js, with the pose detected on the last   *)
(* unthrottled calls and the time of the first of them.                    *)
detectorVars == <<poseDetector, detectRun>>

(* The OSC bridge: the WebSocket message handled last, and the OSC         *)
(* messages and WebSocket replies it produced.                             *)
bridgeVars == <<bridgeMsg, bridgeOsc, bridgeReply>>

(* The relay connection of script.js: the WebSocket oscWS (the number of   *)
(* the socket and its readyState: 0 connecting, 1 open, 2 closing, 3       *)
(* closed; NoSocket while oscWS is null), the queue wsQueue, the reconnect delay wsBackoffMs and the     *)
(* number of pending setTimeout(wsConnect) timers; the payloads handed to  *)
(* WebSocket.send in order (wsWire), the number of payloads passed to      *)
(* sendOsc, those of them that were queued, and the number of failed       *)
(* new WebSocket() calls.  A payload is the number of its sendOsc call.    *)
wsVars == <<oscWS, wsQueue, wsBackoffMs, wsTimers, wsWire, wsPassed,
            wsQueuedLog, wsErrors>>

----------------------------------------------------------------------------
(* JavaScript values *)

NULL == "null"
UNDEFINED == "undefined"

Truthy(v) == v \notin {NULL, UNDEFINED}

NEUTRAL == "neutral"
ARRAY == "array"
POSES == {"star", "arms_up", "side_arms", "zigzag", "arms_out", "rounded"}

----------------------------------------------------------------------------
(* Anti-flicker FSM configuration *)

POSE_DWELL_MS == 400
STICKER_MIN_SHOW_MS == 1000
STICKER_COOLDOWN_MS == 400
GRACE_MS == 250

----------------------------------------------------------------------------
(* Bounds *)

MaxCalls == 6

FsmDeltas == {1, 399, 400, 1249, 1250}
FsmInputs == {NULL, NEUTRAL, "star", "arms_up"}
FsmPids == {0}

NoInfo == [conf |-> <<>>, margin |-> <<>>]
FsmInfos == {NoInfo}

----------------------------------------------------------------------------
(* fsmUpdate *)

NewFSM(t) ==
    [phase |-> "idle", candidatePose |-> NULL, candidateSince |-> 0,
     lockedPose |-> NULL, lockedSince |-> 0, cooldownUntil |-> 0, lastSeen |-> t]

confOK(detectedInfo) ==
    IF detectedInfo.conf = <<>> THEN TRUE ELSE detectedInfo.conf[1] >= 0

marginOK(detectedInfo) ==
    IF detectedInfo.margin = <<>> THEN TRUE ELSE detectedInfo.margin[1] >= 0

fsmIdle(s, detectedPose, detectedInfo, t) ==
    IF Truthy(detectedPose) /\ confOK(detectedInfo) /\ marginOK(detectedInfo)
       /\ t >= s.cooldownUntil
    THEN [s EXCEPT !.phase = "candidate", !.candidatePose = detectedPose,
                   !.candidateSince = t]
    ELSE s

(* fsmCandidate comparing the dwell against the grace window. *)
fsmCandidate_graceDwell(s, detectedPose, detectedInfo, t) ==
    IF ~Truthy(detectedPose)
    THEN IF t - s.candidateSince > GRACE_MS
         THEN [s EXCEPT !.phase = "idle", !.candidatePose = NULL]
         ELSE s
    ELSE IF detectedPose # s.candidatePose
    THEN [s EXCEPT !.candidatePose = detectedPose, !.candidateSince = t]
    ELSE IF (t - s.candidateSince) >= GRACE_MS
            /\ confOK(detectedInfo) /\ marginOK(detectedInfo)
    THEN [s EXCEPT !.phase = "locked", !.lockedPose = s.candidatePose,
                   !.lockedSince = t]
    ELSE s

(* fsmCandidate that takes over a new label without restarting the dwell. *)
fsmCandidate_keepSince(s, detectedPose, detectedInfo, t) ==
    IF ~Truthy(detectedPose)
    THEN IF t - s.candidateSince > GRACE_MS
         THEN [s EXCEPT !.phase = "idle", !.candidatePose = NULL]
         ELSE s
    ELSE IF detectedPose # s.candidatePose
    THEN [s EXCEPT !.candidatePose = detectedPose]
    ELSE IF (t - s.candidateSince) >= POSE_DWELL_MS
            /\ confOK(detectedInfo) /\ marginOK(detectedInfo)
    THEN [s EXCEPT !.phase = "locked", !.lockedPose = s.candidatePose,
                   !.lockedSince = t]
    ELSE s

fsmCandidate(s, detectedPose, detectedInfo, t) ==
    IF ~Truthy(detectedPose)
    THEN IF t - s.candidateSince > GRACE_MS
         THEN [s EXCEPT !.phase = "idle", !.candidatePose = NULL]
         ELSE s
    ELSE IF detectedPose # s.candidatePose
    THEN [s EXCEPT !.candidatePose = detectedPose, !.candidateSince = t]
    ELSE IF (t - s.candidateSince) >= POSE_DWELL_MS
            /\ confOK(detectedInfo) /\ marginOK(detectedInfo)
    THEN [s EXCEPT !.phase = "locked", !.lockedPose = s.candidatePose,
                   !.lockedSince = t]
    ELSE s

(* fsmLocked taking over a different detected label without unlocking. *)
fsmLocked_relabel(s, detectedPose, detectedInfo, t) ==
    LET minShowReached == (t - s.lockedSince) >= STICKER_MIN_SHOW_MS
        changed == (~Truthy(detectedPose)) \/ (detectedPose # s.lockedPose)
    IN  IF detectedPose = s.lockedPose \/ ~minShowReached
        THEN s
        ELSE IF changed /\ (t - s.lockedSince) >= (STICKER_MIN_SHOW_MS + GRACE_MS)
        THEN IF Truthy(detectedPose)
             THEN [s EXCEPT !.lockedPose = detectedPose, !.lockedSince = t]
             ELSE [s EXCEPT !.phase = "cooldown", !.candidatePose = NULL,
                            !.candidateSince = 0,
                            !.cooldownUntil = t + STICKER_COOLDOWN_MS,
                            !.lockedPose = NULL]
        ELSE s

(* fsmLocked unlocking as soon as the minimum show time is reached. *)
fsmLocked_noGrace(s, detectedPose, detectedInfo, t) ==
    LET minShowReached == (t - s.lockedSince) >= STICKER_MIN_SHOW_MS
    IN  IF detectedPose = s.lockedPose \/ ~minShowReached
        THEN s
        ELSE [s EXCEPT !.phase = "cooldown", !.candidatePose = NULL,
                       !.candidateSince = 0,
                       !.cooldownUntil = t + STICKER_COOLDOWN_MS,
                       !.lockedPose = NULL]

(* fsmLocked that leaves cooldownUntil at the unlock time. *)
fsmLocked_noCooldown(s, detectedPose, detectedInfo, t) ==
    LET minShowReached == (t - s.lockedSince) >= STICKER_MIN_SHOW_MS
        changed == (~Truthy(detectedPose)) \/ (detectedPose # s.lockedPose)
    IN  IF detectedPose = s.lockedPose \/ ~minShowReached
        THEN s
        ELSE IF changed /\ (t - s.lockedSince) >= (STICKER_MIN_SHOW_MS + GRACE_MS)
        THEN [s EXCEPT !.phase = "cooldown", !.candidatePose = NULL,
                       !.candidateSince = 0,
                       !.cooldownUntil = t,
                       !.lockedPose = NULL]
        ELSE s

(* fsmLocked that forgets to clear lockedPose on unlock. *)
fsmLocked_keepPose(s, detectedPose, detectedInfo, t) ==
    LET minShowReached == (t - s.lockedSince) >= STICKER_MIN_SHOW_MS
        changed == (~Truthy(detectedPose)) \/ (detectedPose # s.lockedPose)
    IN  IF detectedPose = s.lockedPose \/ ~minShowReached
        THEN s
        ELSE IF changed /\ (t - s.lockedSince) >= (STICKER_MIN_SHOW_MS + GRACE_MS)
        THEN [s EXCEPT !.phase = "cooldown", !.candidatePose = NULL,
                       !.candidateSince = 0,
                       !.cooldownUntil = t + STICKER_COOLDOWN_MS]
        ELSE s

(* fsmLocked that stamps lockedSince again on every frame that still shows  *)
(* the locked pose.                                                        *)
fsmLocked_restamp(s, detectedPose, detectedInfo, t) ==
    LET minShowReached == (t - s.lockedSince) >= STICKER_MIN_SHOW_MS
        changed == (~Truthy(detectedPose)) \/ (detectedPose # s.lockedPose)
    IN  IF detectedPose = s.lockedPose
        THEN [s EXCEPT !.lockedSince = t]
        ELSE IF ~minShowReached
        THEN s
        ELSE IF changed /\ (t - s.lockedSince) >= (STICKER_MIN_SHOW_MS + GRACE_MS)
        THEN [s EXCEPT !.phase = "cooldown", !.candidatePose = NULL,
                       !.candidateSince = 0,
                       !.cooldownUntil = t + STICKER_COOLDOWN_MS,
                       !.lockedPose = NULL]
        ELSE s

fsmLocked(s, detectedPose, detectedInfo, t) ==
    LET minShowReached == (t - s.lockedSince) >= STICKER_MIN_SHOW_MS
        changed == (~Truthy(detectedPose)) \/ (detectedPose # s.lockedPose)
    IN  IF detectedPose = s.lockedPose \/ ~minShowReached
        THEN s
        ELSE IF changed /\ (t - s.lockedSince) >= (STICKER_MIN_SHOW_MS + GRACE_MS)
        THEN [s EXCEPT !.phase = "cooldown", !.candidatePose = NULL,
                       !.candidateSince = 0,
                       !.cooldownUntil = t + STICKER_COOLDOWN_MS,
                       !.lockedPose = NULL]
        ELSE s

fsmCooldown(s, detectedPose, detectedInfo, t) ==
    IF t >= s.cooldownUntil THEN [s EXCEPT !.phase = "idle"] ELSE s

(* The entry of personId at the start of a call made at time t. *)
fsmEntry(fsm, personId, t) ==
    IF personId \in DOMAIN fsm THEN fsm[personId] ELSE NewFSM(t)

(* The entry of personId after fsmUpdate(personId, detectedPose,           *)
(* detectedInfo) at time t; the call returns its lockedPose.               *)
fsmUpdate(fsm, personId, detectedPose, detectedInfo, t) ==
    LET s == [fsmEntry(fsm, personId, t) EXCEPT !.lastSeen = t]
    IN  CASE s.phase = "idle"      -> fsmIdle(s, detectedPose, detectedInfo, t)
          [] s.phase = "candidate" -> fsmCandidate(s, detectedPose, detectedInfo, t)
          [] s.phase = "locked"    -> fsmLocked(s, detectedPose, detectedInfo, t)
          [] s.phase = "cooldown"  -> fsmCooldown(s, detectedPose, detectedInfo, t)

----------------------------------------------------------------------------
(* fsmUpdate driven directly: any detection, any detectedInfo, any clock   *)
(* step.                                                                   *)

(* The values returned to one caller, in order, a value repeated in        *)
(* consecutive frames listed once.                                         *)
logReturn(log, personId, value) ==
    LET l == IF personId \in DOMAIN log THEN log[personId] ELSE << >>
    IN  IF l # << >> /\ l[Len(l)] = value THEN l ELSE Append(l, value)

(* The variables as the script declares them, before its load-time call   *)
(* of wsConnect().                                                         *)
InitDeclared ==
    /\ now = 0
    /\ calls = 0
    /\ poseFSM = << >>
    /\ fsmReturn = << >>
    /\ returnLog = << >>
    /\ lastDetected = << >>
    /\ fsmBefore = << >>
    /\ poses = << >>
    /\ lastFramePoses = << >>
    /\ lastResults = << >>
    /\ lastPrevious = << >>
    /\ frameCount = 0
    /\ personStates = << >>
    /\ lastLockedPoseByPerson = << >>
    /\ matchLog = << >>
    /\ lastReordered = << >>
    /\ stickerAnim = << >>
    /\ animInput = << >>
    /\ lastBundleKey = << >>
    /\ lastSentAt = 0
    /\ sentLog = << >>
    /\ bundleCalls = << >>
    /\ posesKind = ARRAY
    /\ showTracking = FALSE
    /\ showLine = TRUE
    /\ drawThrew = FALSE
    /\ delivered = 0
    /\ consumedAfter = 0
    /\ poseDetector = [lastDetection |-> 0, lastPose |-> NEUTRAL,
                       currentPose |-> NEUTRAL, poseStartTime |-> 0,
                       poseHistory |-> << >>]
    /\ detectRun = << >>
    /\ bridgeMsg = << >>
    /\ bridgeOsc = << >>
    /\ bridgeReply = << >>
    /\ wsQueue = << >>
    /\ wsBackoffMs = 500
    /\ wsWire = << >>
    /\ wsPassed = 0
    /\ wsQueuedLog = << >>
    /\ personStableStates = << >>
    /\ personStableCounters = << >>
    /\ personOverlayImages = << >>
    /\ stableRun = << >>
    /\ smoothStore = << >>
    /\ emaInput = << >>
    /\ emaCounts = << >>
    /\ smoothPos = [n |-> 4, d |-> 5]
    /\ smoothScale = [n |-> 17, d |-> 20]

(* The state once the script is loaded and its wsConnect() call has made   *)
(* the first socket, still connecting.                                     *)
InitFSM ==
    /\ InitDeclared
    /\ oscWS = [id |-> 1, readyState |-> 0]
    /\ wsTimers = 0
    /\ wsErrors = 0
    /\ clockLead = 0

(* The leads of performance.now() over millis(): the sketch starts with    *)
(* the page, or one second after it.                                       *)
ClockLeads == {0, 1000}

(* performance.now() at the time millis() reads t. *)
performanceNow(t) == t + clockLead

(* The loaded script at the start of the sketch, where millis() reads 0.   *)
InitSketch ==
    /\ InitDeclared
    /\ oscWS = [id |-> 1, readyState |-> 0]
    /\ wsTimers = 0
    /\ wsErrors = 0
    /\ clockLead \in ClockLeads

(* One call fsmUpdate(personId, detectedPose, detectedInfo), d ms after    *)
(* the call before.                                                        *)
FsmStep(personId, detectedPose, detectedInfo, d) ==
    /\ calls' = calls + 1
    /\ now' = now + d
    /\ LET s == fsmUpdate(poseFSM, personId, detectedPose, detectedInfo, now')
       IN  /\ poseFSM' = (personId :> s) @@ poseFSM
           /\ fsmReturn' = (personId :> s.lockedPose) @@ fsmReturn
           /\ returnLog' = (personId :> logReturn(returnLog, personId, s.lockedPose))
                              @@ returnLog
    /\ lastDetected' = (personId :> detectedPose) @@ lastDetected
    /\ fsmBefore' = LET s == fsmEntry(poseFSM, personId, now')
                    IN  (personId :> [phase |-> s.phase,
                                      candidatePose |-> s.candidatePose])
                          @@ fsmBefore
    /\ UNCHANGED <<poses, lastFramePoses, lastResults, lastPrevious, matchLog,
                   lastReordered, frameCount, personStates,
                   lastLockedPoseByPerson, animVars, bundleVars,
                   posesKind, uiVars, feedVars, emaVars, stableVars, detectorVars, bridgeVars, wsVars>>

FsmCall(personId, detectedPose, detectedInfo, d) ==
    /\ calls < MaxCalls
    /\ FsmStep(personId, detectedPose, detectedInfo, d)

NextFSM ==
    \E personId \in FsmPids, detectedPose \in FsmInputs,
       detectedInfo \in FsmInfos, d \in FsmDeltas :
        FsmCall(personId, detectedPose, detectedInfo, d)

SpecFSM == InitFSM /\ [][NextFSM]_vars

----------------------------------------------------------------------------
(* fsmUpdate called for one slot frame after frame, the clock advancing by *)
(* a frame interval of the pool between two frames; frames keep arriving   *)
(* until MaxLiveCalls of them have been processed.  The detection passed   *)
(* is null, 'neutral' (what analyzeState returns when it finds no pose,    *)
(* and what draw passes on) or a pose label.                               *)

MaxLiveCalls == 12
LiveDeltas == {200, 400}
LiveInputs == {NULL, NEUTRAL, "star", "arms_up"}
LivePid == CHOOSE p \in FsmPids : TRUE

(* The longest and the shortest frame interval of the pool. *)
LiveMaxDelta == CHOOSE d \in LiveDeltas : \A e \in LiveDeltas : e <= d
LiveMinDelta == CHOOSE d \in LiveDeltas : \A e \in LiveDeltas : d <= e

(* The number of frames after which ms milliseconds have certainly passed. *)
FramesFor(ms) == (ms + LiveMinDelta - 1) \div LiveMinDelta

InitLive == InitFSM

LiveFrame(detectedPose, d) ==
    /\ calls < MaxLiveCalls
    /\ FsmStep(LivePid, detectedPose, NoInfo, d)

NextLive ==
    \E detectedPose \in LiveInputs, d \in LiveDeltas :
        LiveFrame(detectedPose, d)

SpecLive == InitLive /\ [][NextLive]_vars /\ WF_vars(NextLive)

----------------------------------------------------------------------------
(* Skeletons.  A skeleton is a function from the names of its keypoints to *)
(* [x, y, c]: pixel coordinates and the confidence in hundredths.  An      *)
(* array is a sequence; JavaScript index i is index i + 1 here.            *)

Abs(n) == IF n < 0 THEN -n ELSE n

(* Math.sqrt of dx*dx + dy*dy, for the integer coordinates of the pools    *)
(* (axis-parallel or Pythagorean offsets, where the root is an integer).   *)
Dist(dx, dy) ==
    IF dy = 0 THEN Abs(dx)
    ELSE IF dx = 0 THEN Abs(dy)
    ELSE CHOOSE r \in 0..(Abs(dx) + Abs(dy)) : r * r = dx * dx + dy * dy

(* pose.keypoints.find(k => k.name === name) finds a keypoint. *)
Has(pose, name) == name \in DOMAIN pose

----------------------------------------------------------------------------
(* Identity tracking: calculatePoseSimilarity, matchPosesToPreviousFrame,  *)
(* gotPoses.  A score is [total, n], the average total / n, and Infinity   *)
(* when n = 0.                                                             *)

keyPointNames == <<"nose", "left_shoulder", "right_shoulder", "left_hip", "right_hip">>

MATCH_CONF == 30
MATCH_MAX_DIST == 200

Infinity == [total |-> 0, n |-> 0]

RECURSIVE SimilaritySum(_, _, _)
SimilaritySum(pose1, pose2, k) ==
    IF k > Len(keyPointNames) THEN Infinity
    ELSE LET name == keyPointNames[k]
             rest == SimilaritySum(pose1, pose2, k + 1)
         IN  IF /\ Has(pose1, name) /\ Has(pose2, name)
                /\ pose1[name].c > MATCH_CONF /\ pose2[name].c > MATCH_CONF
             THEN [total |-> rest.total
                               + Dist(pose1[name].x - pose2[name].x,
                                      pose1[name].y - pose2[name].y),
                   n |-> rest.n + 1]
             ELSE rest

calculatePoseSimilarity(pose1, pose2) == SimilaritySum(pose1, pose2, 1)

(* a < b on scores *)
ScoreLess(a, b) ==
    /\ a.n > 0
    /\ (b.n = 0 \/ a.total * b.n < b.total * a.n)

(* score < 200 *)
ScoreBelow(a, limit) == a.n > 0 /\ a.total < limit * a.n

costMatrix(currentPoses, previousPoses) ==
    [i \in 1..Len(currentPoses) |->
        [j \in 1..Len(previousPoses) |->
            calculatePoseSimilarity(currentPoses[i], previousPoses[j])]]

(* ScanCurrent without the "already matched" test. *)
RECURSIVE ScanCurrent_noSkip(_, _, _, _, _)
ScanCurrent_noSkip(cost, matched, prevIdx, currIdx, best) ==
    IF currIdx > Len(matched) THEN best
    ELSE IF ScoreLess(cost[currIdx][prevIdx], best.score)
    THEN ScanCurrent_noSkip(cost, matched, prevIdx, currIdx + 1,
                            [idx |-> currIdx, score |-> cost[currIdx][prevIdx]])
    ELSE ScanCurrent_noSkip(cost, matched, prevIdx, currIdx + 1, best)

(* ScanCurrent with the comparison of the scores reversed. *)
RECURSIVE ScanCurrent_farthest(_, _, _, _, _)
ScanCurrent_farthest(cost, matched, prevIdx, currIdx, best) ==
    IF currIdx > Len(matched) THEN best
    ELSE IF matched[currIdx] # 0
    THEN ScanCurrent_farthest(cost, matched, prevIdx, currIdx + 1, best)
    ELSE IF best.idx = 0 \/ ScoreLess(best.score, cost[currIdx][prevIdx])
    THEN ScanCurrent_farthest(cost, matched, prevIdx, currIdx + 1,
                              [idx |-> currIdx, score |-> cost[currIdx][prevIdx]])
    ELSE ScanCurrent_farthest(cost, matched, prevIdx, currIdx + 1, best)

(* The inner loop over currIdx for one prevIdx: best is [idx, score], idx  *)
(* 0 standing for -1.  matched[currIdx] = 0 stands for undefined.          *)
RECURSIVE ScanCurrent(_, _, _, _, _)
ScanCurrent(cost, matched, prevIdx, currIdx, best) ==
    IF currIdx > Len(matched) THEN best
    ELSE IF matched[currIdx] # 0
    THEN ScanCurrent(cost, matched, prevIdx, currIdx + 1, best)
    ELSE IF ScoreLess(cost[currIdx][prevIdx], best.score)
    THEN ScanCurrent(cost, matched, prevIdx, currIdx + 1,
                     [idx |-> currIdx, score |-> cost[currIdx][prevIdx]])
    ELSE ScanCurrent(cost, matched, prevIdx, currIdx + 1, best)

(* GreedyMatch without the distance threshold. *)
RECURSIVE GreedyMatch_noThreshold(_, _, _, _)
GreedyMatch_noThreshold(cost, nPrev, prevIdx, acc) ==
    IF prevIdx > nPrev THEN acc
    ELSE LET best == ScanCurrent(cost, acc.matched, prevIdx, 1,
                                 [idx |-> 0, score |-> Infinity])
         IN  IF best.idx # 0
             THEN GreedyMatch_noThreshold(cost, nPrev, prevIdx + 1,
                      [matched |-> [acc.matched EXCEPT ![best.idx] = prevIdx],
                       log |-> Append(acc.log, <<best.idx, prevIdx>>)])
             ELSE GreedyMatch_noThreshold(cost, nPrev, prevIdx + 1, acc)

(* The greedy loop over the previous slots, from prevIdx on: the matched   *)
(* array and the log of the assignments matched[currIdx] = prevIdx made.   *)
RECURSIVE GreedyMatch(_, _, _, _)
GreedyMatch(cost, nPrev, prevIdx, acc) ==
    IF prevIdx > nPrev THEN acc
    ELSE LET best == ScanCurrent(cost, acc.matched, prevIdx, 1,
                                 [idx |-> 0, score |-> Infinity])
         IN  IF best.idx # 0 /\ ScoreBelow(best.score, MATCH_MAX_DIST)
             THEN GreedyMatch(cost, nPrev, prevIdx + 1,
                      [matched |-> [acc.matched EXCEPT ![best.idx] = prevIdx],
                       log |-> Append(acc.log, <<best.idx, prevIdx>>)])
             ELSE GreedyMatch(cost, nPrev, prevIdx + 1, acc)

Greedy(currentPoses, previousPoses) ==
    GreedyMatch(costMatrix(currentPoses, previousPoses), Len(previousPoses), 1,
                [matched |-> [i \in 1..Len(currentPoses) |-> 0], log |-> << >>])

Max(a, b) == IF a > b THEN a ELSE b

(* "Place matched poses in their previous positions": a slot of reordered  *)
(* is << >> (undefined) or <<pose>>.                                       *)
RECURSIVE PlaceMatched(_, _, _, _)
PlaceMatched(currentPoses, matched, currIdx, reordered) ==
    IF currIdx > Len(currentPoses) THEN reordered
    ELSE IF matched[currIdx] # 0
    THEN PlaceMatched(currentPoses, matched, currIdx + 1,
             [reordered EXCEPT ![matched[currIdx]] = <<currentPoses[currIdx]>>])
    ELSE PlaceMatched(currentPoses, matched, currIdx + 1, reordered)

(* NextEmpty without the search for an empty slot. *)
NextEmpty_noSearch(reordered, nextSlot) == nextSlot

(* while (reordered[nextSlot] !== undefined) nextSlot++ *)
RECURSIVE NextEmpty(_, _)
NextEmpty(reordered, nextSlot) ==
    IF nextSlot <= Len(reordered) /\ reordered[nextSlot] # << >>
    THEN NextEmpty(reordered, nextSlot + 1)
    ELSE nextSlot

(* "Place unmatched poses in remaining slots"; writing past the end grows  *)
(* the array.                                                              *)
RECURSIVE PlaceUnmatched(_, _, _, _, _)
PlaceUnmatched(currentPoses, matched, currIdx, nextSlot, reordered) ==
    IF currIdx > Len(currentPoses) THEN reordered
    ELSE IF matched[currIdx] = 0
    THEN LET slot == NextEmpty(reordered, nextSlot)
             grown == IF slot > Len(reordered)
                      THEN Append(reordered, <<currentPoses[currIdx]>>)
                      ELSE [reordered EXCEPT ![slot] = <<currentPoses[currIdx]>>]
         IN  PlaceUnmatched(currentPoses, matched, currIdx + 1, slot, grown)
    ELSE PlaceUnmatched(currentPoses, matched, currIdx + 1, nextSlot, reordered)

(* reordered.filter(p => p !== undefined) *)
RECURSIVE FilterDefined(_)
FilterDefined(reordered) ==
    IF reordered = << >> THEN << >>
    ELSE IF Head(reordered) = << >> THEN FilterDefined(Tail(reordered))
    ELSE <<Head(reordered)[1]>> \o FilterDefined(Tail(reordered))

(* matchPosesToPreviousFrame that returns the matched skeletons only. *)
matchPosesToPreviousFrame_matchedOnly(currentPoses, previousPoses) ==
    IF Len(previousPoses) = 0 THEN currentPoses
    ELSE IF Len(currentPoses) = 0 THEN currentPoses
    ELSE LET matched == Greedy(currentPoses, previousPoses).matched
             holes == [i \in 1..Max(Len(currentPoses), Len(previousPoses)) |-> << >>]
         IN  FilterDefined(PlaceMatched(currentPoses, matched, 1, holes))

matchPosesToPreviousFrame(currentPoses, previousPoses) ==
    IF Len(previousPoses) = 0 THEN currentPoses
    ELSE IF Len(currentPoses) = 0 THEN currentPoses
    ELSE LET matched == Greedy(currentPoses, previousPoses).matched
             holes == [i \in 1..Max(Len(currentPoses), Len(previousPoses)) |-> << >>]
             placed == PlaceMatched(currentPoses, matched, 1, holes)
         IN  FilterDefined(PlaceUnmatched(currentPoses, matched, 1, 1, placed))

(* The assignments made by the matching of one gotPoses(results) call. *)
matchAssignments(currentPoses, previousPoses) ==
    IF Len(previousPoses) = 0 \/ Len(currentPoses) = 0 THEN << >>
    ELSE Greedy(currentPoses, previousPoses).log

(* gotPoses that queues the new skeletons behind those not yet drawn. *)
gotPoses_queue(results) ==
    /\ posesKind' = ARRAY
    /\ IF Len(results) = 0
       THEN /\ poses' = poses
            /\ lastFramePoses' = << >>
       ELSE /\ poses' = poses \o matchPosesToPreviousFrame(results, lastFramePoses)
            /\ lastFramePoses' = matchPosesToPreviousFrame(results, lastFramePoses)

(* gotPoses(results), results an array *)
gotPoses(results) ==
    /\ posesKind' = ARRAY
    /\ IF Len(results) = 0
       THEN /\ poses' = results
            /\ lastFramePoses' = << >>
       ELSE /\ poses' = matchPosesToPreviousFrame(results, lastFramePoses)
            /\ lastFramePoses' = poses'

(* gotPoses(results), results null or undefined: "if (!results ||" *)
gotPosesNone(results) ==
    /\ posesKind' = results
    /\ poses' = << >>
    /\ lastFramePoses' = << >>

(* The reordered array of one matching before the filter, holding the      *)
(* index of the current skeleton put in each slot (<< >> for undefined).   *)
reorderedSlots(currentPoses, previousPoses) ==
    IF Len(previousPoses) = 0 \/ Len(currentPoses) = 0
    THEN [i \in 1..Len(currentPoses) |-> <<i>>]
    ELSE LET indices == [i \in 1..Len(currentPoses) |-> i]
             matched == Greedy(currentPoses, previousPoses).matched
             holes == [i \in 1..Max(Len(currentPoses), Len(previousPoses)) |-> << >>]
             placed == PlaceMatched(indices, matched, 1, holes)
         IN  PlaceUnmatched(indices, matched, 1, 1, placed)

(* The arguments of the matching made by gotPoses(results), the            *)
(* assignments it made and the slots it filled.                            *)
recordMatch(results) ==
    /\ lastResults' = results
    /\ lastPrevious' = lastFramePoses
    /\ matchLog' = matchAssignments(results, lastFramePoses)
    /\ lastReordered' = reorderedSlots(results, lastFramePoses)

----------------------------------------------------------------------------
(* The identity tracker driven directly by detector callbacks. *)

MaxPeople == 2

(* A person standing at x: nose and shoulders with confidence c, hips with *)
(* confidence ch.                                                          *)
Standing(x, c, ch) ==
    [nose |-> [x |-> x, y |-> 100, c |-> c],
     left_shoulder |-> [x |-> x - 40, y |-> 160, c |-> c],
     right_shoulder |-> [x |-> x + 40, y |-> 160, c |-> c],
     left_hip |-> [x |-> x - 30, y |-> 300, c |-> ch],
     right_hip |-> [x |-> x + 30, y |-> 300, c |-> ch]]

(* A person leaning: nose and shoulders around x, hips around hx. *)
Leaning(x, hx, c, ch) ==
    [nose |-> [x |-> x, y |-> 100, c |-> c],
     left_shoulder |-> [x |-> x - 40, y |-> 160, c |-> c],
     right_shoulder |-> [x |-> x + 40, y |-> 160, c |-> c],
     left_hip |-> [x |-> hx - 30, y |-> 300, c |-> ch],
     right_hip |-> [x |-> hx + 30, y |-> 300, c |-> ch]]

(* Three skeletons: the first two are 200 apart on nose and shoulders (not *)
(* below the threshold), the last two 190 apart on the hips, and the first *)
(* and the last share no confident keypoint (Infinity).                    *)
MatchPool ==
    {Standing(150, 90, 20), Leaning(350, 300, 90, 90), Standing(110, 20, 90)}

RECURSIVE ListsUpTo(_, _)
ListsUpTo(pool, n) ==
    IF n = 0 THEN {<< >>}
    ELSE LET shorter == ListsUpTo(pool, n - 1)
         IN  shorter \cup {Append(l, p) : l \in {q \in shorter : Len(q) = n - 1},
                                           p \in pool}

InitMatch == InitFSM

GotPosesMatch(results) ==
    /\ gotPoses(results)
    /\ recordMatch(results)
    /\ UNCHANGED <<now, calls, poseFSM, fsmReturn, returnLog, lastDetected, fsmBefore,
                   frameCount, personStates, lastLockedPoseByPerson,
                   animVars, bundleVars, uiVars, feedVars, emaVars, stableVars, detectorVars, bridgeVars, wsVars>>

NextMatch == \E results \in ListsUpTo(MatchPool, MaxPeople) : GotPosesMatch(results)

SpecMatch == InitMatch /\ [][NextMatch]_vars

----------------------------------------------------------------------------
(* analyzeState.  Comparisons with decimal factors are scaled to integers  *)
(* (a > b * 1.6 on lengths is 25 a^2 > 64 b^2), and shoulderMidY, hipMidY   *)
(* and torsoHeight are carried doubled.                                    *)

Sq(n) == n * n

ANALYZE_CONF == 30

(* "Handle missing critical keypoints" *)
missingCritical(pose) ==
    \E name \in {"left_wrist", "right_wrist", "left_elbow", "right_elbow",
                 "left_shoulder", "right_shoulder", "nose"} : ~Has(pose, name)

(* "Check minimum confidence levels" *)
lowConfidence(pose) ==
    \/ pose["left_wrist"].c < ANALYZE_CONF \/ pose["right_wrist"].c < ANALYZE_CONF
    \/ pose["left_shoulder"].c < ANALYZE_CONF \/ pose["right_shoulder"].c < ANALYZE_CONF

(* "armLength > forearmLength * 1.6" in IEEE-754 doubles.  The two lengths *)
(* are square roots of integers, so the doubles order as the reals do      *)
(* unless 25 * armSq = 64 * forearmSq, where the roundings of Math.sqrt    *)
(* and of the product decide.  A number of up to 58 bits is the pair       *)
(* [hi, lo] of value hi * DWord + lo with 0 <= lo < DWord.                 *)
DWord == 2^27

DPair(hi, lo) == [hi |-> hi, lo |-> lo]

(* p * k + c for small k and c *)
DTimes(p, k, c) ==
    LET low == p.lo * k + c
    IN  DPair(p.hi * k + (low \div DWord), low % DWord)

DLess(p, q) == p.hi < q.hi \/ (p.hi = q.hi /\ p.lo < q.lo)

(* p - q for p >= q *)
DMinus(p, q) ==
    IF p.lo >= q.lo THEN DPair(p.hi - q.hi, p.lo - q.lo)
    ELSE DPair(p.hi - q.hi - 1, p.lo + DWord - q.lo)

DHalf(p) == DPair(p.hi \div 2, (p.lo + (p.hi % 2) * DWord) \div 2)

(* The binary digits of the square root of n > 0, one per step from the    *)
(* bit pairs of n (i = 15..0) and then from pairs of zeros (s counts       *)
(* them), until the root has 54 bits: root = floor(sqrt(n) * 2^s).         *)
sqrtDone(st) == st.i < 0 /\ st.root.hi >= 2^26

sqrtStep(st) ==
    IF sqrtDone(st) THEN st
    ELSE LET pair == IF st.i >= 0 THEN (st.n \div 4^st.i) % 4 ELSE 0
             rem4 == DTimes(st.rem, 4, pair)
             trial == DTimes(st.root, 4, 1)
             digit == IF DLess(rem4, trial) THEN 0 ELSE 1
         IN  [n |-> st.n, i |-> st.i - 1,
              rem |-> IF digit = 1 THEN DMinus(rem4, trial) ELSE rem4,
              root |-> DTimes(st.root, 2, digit),
              s |-> IF st.i < 0 THEN st.s + 1 ELSE st.s]

RECURSIVE sqrtDigits(_)
sqrtDigits(st) ==
    IF sqrtDone(st) THEN st
    ELSE sqrtDigits(sqrtStep(st))

(* Math.sqrt(n) for an integer n > 0: the double m * 2^(1 - s) with the    *)
(* 53-bit m nearest to sqrt(n) * 2^(s - 1).  The square root is an integer *)
(* or irrational, so the 54th bit decides the rounding.                    *)
sqrtDouble(n) ==
    LET digits == sqrtDigits([n |-> n, i |-> 15, rem |-> DPair(0, 0),
                              root |-> DPair(0, 0), s |-> 0])
    IN  [m |-> DHalf(DTimes(digits.root, 1, 1)), s |-> digits.s]

(* arm > forearm * 1.6 for the doubles arm = sqrt(armSq) and forearm =     *)
(* sqrt(forearmSq) with 25 * armSq = 64 * forearmSq.  The double 1.6 is    *)
(* (2^55 + 2) / 5 * 2^-52, and the product rounds to a double below arm    *)
(* exactly when it lies below the middle of arm and the double before it,  *)
(* or on the middle with that double the even one:                         *)
(*     forearm.m * (2^54 + 1) < (10 * arm.m - 5) * 2^t                     *)
(* with t = 50 when the two doubles have the same exponent, 51 otherwise.  *)
tiedArmExtended(arm, forearm) ==
    LET t == 50 + (forearm.s - arm.s)
        whole == DTimes(forearm.m, 2^(54 - t), (forearm.m.hi \div 2^(t - 27)) + 5)
        rest == forearm.m.hi % 2^(t - 27) # 0 \/ forearm.m.lo # 0
        bound == DTimes(arm.m, 10, 0)
    IN  \/ DLess(whole, bound)
        \/ whole = bound /\ ~rest /\ arm.m.lo % 2 = 1

(* "const leftArmExtended = leftArmLength > leftForearmLength * 1.6" on    *)
(* the squares of the two lengths.                                         *)
armExtended(armSq, forearmSq) ==
    IF 25 * armSq # 64 * forearmSq THEN 25 * armSq > 64 * forearmSq
    ELSE IF armSq = 0 THEN FALSE
    ELSE tiedArmExtended(sqrtDouble(armSq), sqrtDouble(forearmSq))

(* The conditions of the six pose rules ("POSE DETECTION") on a skeleton   *)
(* that has the critical keypoints, each by the name of its pose.          *)
poseRules(pose) ==
    LET leftWrist == pose["left_wrist"]
        rightWrist == pose["right_wrist"]
        leftElbow == pose["left_elbow"]
        rightElbow == pose["right_elbow"]
        leftShoulder == pose["left_shoulder"]
        rightShoulder == pose["right_shoulder"]
        nose == pose["nose"]
        shoulderWidth == Abs(leftShoulder.x - rightShoulder.x)
        shoulderMidY2 == leftShoulder.y + rightShoulder.y
        leftArmLengthSq == Sq(leftWrist.x - leftShoulder.x) + Sq(leftWrist.y - leftShoulder.y)
        rightArmLengthSq == Sq(rightWrist.x - rightShoulder.x) + Sq(rightWrist.y - rightShoulder.y)
        leftForearmLengthSq == Sq(leftWrist.x - leftElbow.x) + Sq(leftWrist.y - leftElbow.y)
        rightForearmLengthSq == Sq(rightWrist.x - rightElbow.x) + Sq(rightWrist.y - rightElbow.y)
        leftArmExtended == armExtended(leftArmLengthSq, leftForearmLengthSq)
        rightArmExtended == armExtended(rightArmLengthSq, rightForearmLengthSq)
        leftArmSpread == 10 * leftWrist.x < 10 * leftShoulder.x - 3 * shoulderWidth
        rightArmSpread == 10 * rightWrist.x > 10 * rightShoulder.x + 3 * shoulderWidth
        wristsSymmetric == Abs(leftWrist.y - rightWrist.y) < 60
        (* 1. star *)
        hasLegs == /\ Has(pose, "left_hip") /\ Has(pose, "right_hip")
                   /\ Has(pose, "left_ankle") /\ Has(pose, "right_ankle")
        hipWidth == Abs(pose["left_hip"].x - pose["right_hip"].x)
        ankleSpread == Abs(pose["left_ankle"].x - pose["right_ankle"].x)
        legsSpread == 10 * ankleSpread > 13 * hipWidth
        armsRaised == 2 * leftWrist.y < shoulderMidY2 /\ 2 * rightWrist.y < shoulderMidY2
        isStar == /\ hasLegs
                  /\ leftArmExtended /\ rightArmExtended
                  /\ leftArmSpread /\ rightArmSpread
                  /\ armsRaised /\ legsSpread /\ wristsSymmetric
        (* 2. arms_up *)
        bothArmsUp == leftWrist.y < nose.y - 30 /\ rightWrist.y < nose.y - 30
        isArmsUp == bothArmsUp /\ leftArmExtended /\ rightArmExtended /\ wristsSymmetric
        (* 3. side_arms *)
        leftWristAboveElbow == leftWrist.y < leftElbow.y - 20
        rightWristAboveElbow == rightWrist.y < rightElbow.y - 20
        leftWristAboveShoulder == leftWrist.y < leftShoulder.y
        rightWristAboveShoulder == rightWrist.y < rightShoulder.y
        leftElbowOut == 10 * Abs(leftElbow.x - leftShoulder.x) > 3 * shoulderWidth
        rightElbowOut == 10 * Abs(rightElbow.x - rightShoulder.x) > 3 * shoulderWidth
        isSideArms == /\ leftWristAboveElbow /\ rightWristAboveElbow
                      /\ leftWristAboveShoulder /\ rightWristAboveShoulder
                      /\ leftElbowOut /\ rightElbowOut /\ wristsSymmetric
        (* 4. zigzag *)
        wristHeightDiff == Abs(leftWrist.y - rightWrist.y)
        asymmetric == 10 * wristHeightDiff > 8 * shoulderWidth
        oneArmUp == \/ 2 * leftWrist.y < shoulderMidY2 - 80
                    \/ 2 * rightWrist.y < shoulderMidY2 - 80
        oneArmDown == \/ 2 * leftWrist.y > shoulderMidY2 + 80
                      \/ 2 * rightWrist.y > shoulderMidY2 + 80
        isZigzag == /\ asymmetric /\ oneArmUp /\ oneArmDown
                    /\ leftArmExtended /\ rightArmExtended
        (* 5. arms_out *)
        leftArmHorizontal == Abs(leftWrist.y - leftShoulder.y) < 60
        rightArmHorizontal == Abs(rightWrist.y - rightShoulder.y) < 60
        isArmsOut == /\ leftArmExtended /\ rightArmExtended
                     /\ leftArmSpread /\ rightArmSpread
                     /\ leftArmHorizontal /\ rightArmHorizontal /\ wristsSymmetric
        (* 6. rounded *)
        hasHips == Has(pose, "left_hip") /\ Has(pose, "right_hip")
        leftHip == pose["left_hip"]
        rightHip == pose["right_hip"]
        hipMidY2 == leftHip.y + rightHip.y
        torsoHeight2 == Abs(shoulderMidY2 - hipMidY2)
        leftWristInRange == /\ 10 * leftWrist.y > 5 * shoulderMidY2 - torsoHeight2
                            /\ 10 * leftWrist.y < 5 * hipMidY2 + 3 * torsoHeight2
        rightWristInRange == /\ 10 * rightWrist.y > 5 * shoulderMidY2 - torsoHeight2
                             /\ 10 * rightWrist.y < 5 * hipMidY2 + 3 * torsoHeight2
        leftWristToHipDistSq == Sq(leftWrist.x - leftHip.x) + Sq(leftWrist.y - leftHip.y)
        rightWristToHipDistSq == Sq(rightWrist.x - rightHip.x) + Sq(rightWrist.y - rightHip.y)
        leftWristNearHip == leftWristToHipDistSq < Sq(shoulderWidth)
        rightWristNearHip == rightWristToHipDistSq < Sq(shoulderWidth)
        leftElbowOutward == 10 * leftElbow.x < 10 * leftWrist.x - shoulderWidth
        rightElbowOutward == 10 * rightElbow.x > 10 * rightWrist.x + shoulderWidth
        leftForearmShort == 25 * leftForearmLengthSq < 49 * Sq(shoulderWidth)
        rightForearmShort == 25 * rightForearmLengthSq < 49 * Sq(shoulderWidth)
        isRounded == /\ hasHips
                     /\ leftWristInRange /\ rightWristInRange
                     /\ leftWristNearHip /\ rightWristNearHip
                     /\ leftElbowOutward /\ rightElbowOutward
                     /\ leftForearmShort /\ rightForearmShort
    IN  [star |-> isStar, arms_up |-> isArmsUp, side_arms |-> isSideArms,
         zigzag |-> isZigzag, arms_out |-> isArmsOut, rounded |-> isRounded]

(* analyzeState that tests the rules from the last to the first. *)
analyzeState_lastFirst(pose) ==
    IF missingCritical(pose) THEN NEUTRAL
    ELSE IF lowConfidence(pose) THEN NEUTRAL
    ELSE LET is == poseRules(pose)
         IN  IF is.rounded THEN "rounded"
             ELSE IF is.arms_out THEN "arms_out"
             ELSE IF is.zigzag THEN "zigzag"
             ELSE IF is.side_arms THEN "side_arms"
             ELSE IF is.arms_up THEN "arms_up"
             ELSE IF is.star THEN "star"
             ELSE NEUTRAL

analyzeState(pose) ==
    IF missingCritical(pose) THEN NEUTRAL
    ELSE IF lowConfidence(pose) THEN NEUTRAL
    ELSE LET is == poseRules(pose)
         IN  IF is.star THEN "star"
             ELSE IF is.arms_up THEN "arms_up"
             ELSE IF is.side_arms THEN "side_arms"
             ELSE IF is.zigzag THEN "zigzag"
             ELSE IF is.arms_out THEN "arms_out"
             ELSE IF is.rounded THEN "rounded"
             ELSE NEUTRAL

----------------------------------------------------------------------------
(* Sticker animation: updateStickerAnim.  A scale is an exact fraction     *)
(* [n, d] in lowest terms with d > 0.                                      *)

RECURSIVE GCD(_, _)
GCD(a, b) == IF b = 0 THEN a ELSE GCD(b, a % b)

Rat(n, d) ==
    LET g == GCD(Abs(n), Abs(d))
        sign == IF d < 0 THEN -1 ELSE 1
    IN  IF n = 0 THEN [n |-> 0, d |-> 1]
        ELSE [n |-> sign * (n \div g), d |-> sign * (d \div g)]

RatAdd(a, b) ==
    LET g == GCD(a.d, b.d)
    IN  Rat(a.n * (b.d \div g) + b.n * (a.d \div g), (a.d \div g) * b.d)

RatSub(a, b) == RatAdd(a, [n |-> -b.n, d |-> b.d])

RatMul(a, b) ==
    LET x == Rat(a.n, b.d)
        y == Rat(b.n, a.d)
    IN  Rat(x.n * y.n, x.d * y.d)

RatLess(a, b) ==
    LET g == GCD(a.d, b.d) IN a.n * (b.d \div g) < b.n * (a.d \div g)

RatLeq(a, b) ==
    LET g == GCD(a.d, b.d) IN a.n * (b.d \div g) <= b.n * (a.d \div g)

Zero == Rat(0, 1)
One == Rat(1, 1)

IN_MS == 440
OUT_MS == 220
S_IN_START == Rat(58, 100)
S_IN_END == Rat(100, 100)
S_OUT_END == Rat(76, 100)

clamp01(x) == IF RatLess(x, Zero) THEN Zero ELSE IF RatLess(One, x) THEN One ELSE x
lerp(a, b, t) == RatAdd(a, RatMul(RatSub(b, a), t))
easeOutQuad(u) == RatSub(One, RatMul(RatSub(One, u), RatSub(One, u)))
easeInQuad(u) == RatMul(u, u)

selectImageFor(state) ==
    CASE state = "arms_out" -> "arms_outImage"
      [] state = "arms_up" -> "arms_upImage"
      [] state = "star" -> "starImage"
      [] state = "zigzag" -> "zigzagImage"
      [] state = "side_arms" -> "side_armsImage"
      [] state = "rounded" -> "roundedImage"
      [] OTHER -> NULL

NewAnim ==
    [phase |-> "hidden", t0 |-> 0, dur |-> 0, from |-> One, to |-> One,
     scale |-> One, currentPose |-> NULL, currentImage |-> NULL]

animEntry(anim, personId) ==
    IF personId \in DOMAIN anim THEN anim[personId] ELSE NewAnim

(* "ENTER: got a pose locked" / "EXIT: no locked pose" *)
animEnterExit(A, lockedPose, t) ==
    IF Truthy(lockedPose) /\ lockedPose # NEUTRAL
    THEN IF A.phase = "hidden" \/ A.phase = "out" \/ A.currentPose # lockedPose
         THEN [A EXCEPT !.currentPose = lockedPose,
                        !.currentImage = selectImageFor(lockedPose),
                        !.phase = "in", !.t0 = t, !.dur = IN_MS,
                        !.from = S_IN_START, !.to = S_IN_END]
         ELSE A
    ELSE IF A.phase = "in" \/ A.phase = "steady"
         THEN [A EXCEPT !.phase = "out", !.t0 = t, !.dur = OUT_MS,
                        !.from = IF A.scale = Zero THEN One ELSE A.scale,
                        !.to = S_OUT_END]
         ELSE A

(* animAdvance that ends the enter on u > 1 instead of u >= 1. *)
animAdvance_strictEnd(A, t) ==
    IF A.phase = "in"
    THEN LET u == clamp01(Rat(t - A.t0, A.dur))
             scale == lerp(A.from, A.to, easeOutQuad(u))
         IN  IF RatLess(One, u)
             THEN [A EXCEPT !.phase = "steady", !.scale = One]
             ELSE [A EXCEPT !.scale = scale]
    ELSE IF A.phase = "out"
    THEN LET u == clamp01(Rat(t - A.t0, A.dur))
             scale == lerp(A.from, A.to, easeInQuad(u))
         IN  IF RatLeq(One, u)
             THEN [A EXCEPT !.phase = "hidden", !.scale = One,
                            !.currentImage = NULL, !.currentPose = NULL]
             ELSE [A EXCEPT !.scale = scale]
    ELSE IF A.phase = "steady"
    THEN [A EXCEPT !.scale = One]
    ELSE A

(* animAdvance that overshoots: the enter eases towards 1.2. *)
animAdvance_overshoot(A, t) ==
    IF A.phase = "in"
    THEN LET u == clamp01(Rat(t - A.t0, A.dur))
             scale == lerp(A.from, Rat(12, 10), easeOutQuad(u))
         IN  IF RatLeq(One, u)
             THEN [A EXCEPT !.phase = "steady", !.scale = One]
             ELSE [A EXCEPT !.scale = scale]
    ELSE IF A.phase = "out"
    THEN LET u == clamp01(Rat(t - A.t0, A.dur))
             scale == lerp(A.from, A.to, easeInQuad(u))
         IN  IF RatLeq(One, u)
             THEN [A EXCEPT !.phase = "hidden", !.scale = One,
                            !.currentImage = NULL, !.currentPose = NULL]
             ELSE [A EXCEPT !.scale = scale]
    ELSE IF A.phase = "steady"
    THEN [A EXCEPT !.scale = One]
    ELSE A

(* animAdvance that keeps the image when the exit ends. *)
animAdvance_keepImage(A, t) ==
    IF A.phase = "in"
    THEN LET u == clamp01(Rat(t - A.t0, A.dur))
             scale == lerp(A.from, A.to, easeOutQuad(u))
         IN  IF RatLeq(One, u)
             THEN [A EXCEPT !.phase = "steady", !.scale = One]
             ELSE [A EXCEPT !.scale = scale]
    ELSE IF A.phase = "out"
    THEN LET u == clamp01(Rat(t - A.t0, A.dur))
             scale == lerp(A.from, A.to, easeInQuad(u))
         IN  IF RatLeq(One, u)
             THEN [A EXCEPT !.phase = "hidden", !.scale = One]
             ELSE [A EXCEPT !.scale = scale]
    ELSE IF A.phase = "steady"
    THEN [A EXCEPT !.scale = One]
    ELSE A

(* animAdvance that scales the stored scale of an exit by the eased       *)
(* factor of the frame instead of recomputing it from A.from.              *)
animAdvance_delta(A, t) ==
    IF A.phase = "in"
    THEN LET u == clamp01(Rat(t - A.t0, A.dur))
             scale == lerp(A.from, A.to, easeOutQuad(u))
         IN  IF RatLeq(One, u)
             THEN [A EXCEPT !.phase = "steady", !.scale = One]
             ELSE [A EXCEPT !.scale = scale]
    ELSE IF A.phase = "out"
    THEN LET u == clamp01(Rat(t - A.t0, A.dur))
             scale == RatMul(A.scale, lerp(One, A.to, easeInQuad(u)))
         IN  IF RatLeq(One, u)
             THEN [A EXCEPT !.phase = "hidden", !.scale = One,
                            !.currentImage = NULL, !.currentPose = NULL]
             ELSE [A EXCEPT !.scale = scale]
    ELSE IF A.phase = "steady"
    THEN [A EXCEPT !.scale = One]
    ELSE A

(* "Advance animation" *)
animAdvance(A, t) ==
    IF A.phase = "in"
    THEN LET u == clamp01(Rat(t - A.t0, A.dur))
             scale == lerp(A.from, A.to, easeOutQuad(u))
         IN  IF RatLeq(One, u)
             THEN [A EXCEPT !.phase = "steady", !.scale = One]
             ELSE [A EXCEPT !.scale = scale]
    ELSE IF A.phase = "out"
    THEN LET u == clamp01(Rat(t - A.t0, A.dur))
             scale == lerp(A.from, A.to, easeInQuad(u))
         IN  IF RatLeq(One, u)
             THEN [A EXCEPT !.phase = "hidden", !.scale = One,
                            !.currentImage = NULL, !.currentPose = NULL]
             ELSE [A EXCEPT !.scale = scale]
    ELSE IF A.phase = "steady"
    THEN [A EXCEPT !.scale = One]
    ELSE A

(* The entry of personId after updateStickerAnim(personId, lockedPose) at  *)
(* time t, which is also the value returned.                               *)
updateStickerAnim(anim, personId, lockedPose, t) ==
    animAdvance(animEnterExit(animEntry(anim, personId), lockedPose, t), t)

----------------------------------------------------------------------------
(* updateStickerAnim driven directly: any locked pose, any clock step.     *)

MaxAnimCalls == 5

AnimDeltas == {22, 198, 220, 440}
AnimInputs == {NULL, NEUTRAL, "star", "arms_up"}
AnimPids == {0}

InitAnim == InitFSM

(* One call updateStickerAnim(personId, lockedPose), d ms after the call   *)
(* before.                                                                 *)
AnimStep(personId, lockedPose, d) ==
    /\ calls' = calls + 1
    /\ now' = now + d
    /\ stickerAnim' = (personId :> updateStickerAnim(stickerAnim, personId,
                                                      lockedPose, now'))
                         @@ stickerAnim
    /\ animInput' = (personId :> lockedPose) @@ animInput
    /\ UNCHANGED <<poseFSM, fsmReturn, returnLog, lastDetected, fsmBefore,
                   poses, lastFramePoses, lastResults, lastPrevious, matchLog,
                   lastReordered, frameCount, personStates,
                   lastLockedPoseByPerson, bundleVars, posesKind, uiVars, feedVars, emaVars, stableVars, detectorVars, bridgeVars, wsVars>>

AnimCall(personId, lockedPose, d) ==
    /\ calls < MaxAnimCalls
    /\ AnimStep(personId, lockedPose, d)

NextAnim ==
    \E personId \in AnimPids, lockedPose \in AnimInputs, d \in AnimDeltas :
        AnimCall(personId, lockedPose, d)

SpecAnim == InitAnim /\ [][NextAnim]_vars

----------------------------------------------------------------------------
(* Frame-count debounce: resizeStateArrays, processPersonStateChange and   *)
(* selectImageFor as the earlier sketch kept in osc-bridge/index.js has    *)
(* them, whose draw() calls processPersonStateChange for every slot.  Its  *)
(* states are "Neutral", "Jesus" and "Prime".  personLastStates, which is  *)
(* resized and never read, is left out.                                    *)

STABLE_FRAMES == 12

(* One per-person array extended with fill or truncated to numPersons. *)
resized(arr, numPersons, fill) ==
    [i \in 1..numPersons |-> IF i <= Len(arr) THEN arr[i] ELSE fill]

(* The per-person arrays [states, stable, counters, images] after          *)
(* resizeStateArrays(numPersons) of the sketch.                            *)
LegacyResizeStateArrays(st, numPersons) ==
    [states |-> resized(st.states, numPersons, "Neutral"),
     stable |-> resized(st.stable, numPersons, "Neutral"),
     counters |-> resized(st.counters, numPersons, 0),
     images |-> resized(st.images, numPersons, NULL)]

(* selectImageFor(state) of the sketch *)
LegacySelectImageFor(state) ==
    IF state = "Jesus" THEN "jesusImage"
    ELSE IF state = "Prime" THEN "primeImage"
    ELSE NULL

(* The per-person arrays after processPersonStateChange(personIndex). *)
processPersonStateChange(st, personIndex) ==
    LET i == personIndex + 1
    IN  IF personIndex >= Len(st.states) THEN st
        ELSE IF st.states[i] # st.stable[i]
        THEN LET counter == st.counters[i] + 1
             IN  IF counter >= STABLE_FRAMES
                 THEN [st EXCEPT !.stable[i] = st.states[i],
                                 !.counters[i] = 0,
                                 !.images[i] = LegacySelectImageFor(st.states[i])]
                 ELSE [st EXCEPT !.counters[i] = counter]
        ELSE [st EXCEPT !.counters[i] = 0]

(* The loop "for (let i = 0; i < poses.length; i++)                        *)
(* processPersonStateChange(i)" from slot i on.                            *)
RECURSIVE processAll(_, _)
processAll(st, i) ==
    IF i > Len(st.states) THEN st
    ELSE processAll(processPersonStateChange(st, i - 1), i + 1)

----------------------------------------------------------------------------
(* PoseDetector (modules/PoseDetector.js) as app.js configures it.  The    *)
(* loop over the registered detection methods is taken by its result: the  *)
(* first registered pose whose method accepts the landmarks, or neutral.   *)

THROTTLE_MS == 100
STABLE_TIME == 500
maxHistorySize == 10

(* new PoseDetector(...) at Date.now() = t *)
NewPoseDetector(t) ==
    [lastDetection |-> 0, lastPose |-> NEUTRAL, currentPose |-> NEUTRAL,
     poseStartTime |-> t, poseHistory |-> << >>]

(* isStablePose(pose) *)
isStablePose(poseHistory, pose) ==
    LET requiredCount == IF Len(poseHistory) < 5 THEN Len(poseHistory) ELSE 5
    IN  \A i \in (Len(poseHistory) - requiredCount + 1)..Len(poseHistory) :
            poseHistory[i] = pose

(* The detector after detect(landmarks) at Date.now() = t, the landmarks   *)
(* showing detectedPose; the call returns its currentPose.                 *)
detect(det, detectedPose, t) ==
    IF t - det.lastDetection < THROTTLE_MS THEN det
    ELSE LET pushed == Append(det.poseHistory, detectedPose)
             history == IF Len(pushed) > maxHistorySize THEN Tail(pushed) ELSE pushed
             change == isStablePose(history, detectedPose)
                         /\ detectedPose # det.currentPose
         IN  [det EXCEPT !.lastDetection = t,
                         !.poseHistory = history,
                         !.currentPose = IF change THEN detectedPose ELSE @,
                         !.poseStartTime = IF change THEN t ELSE @]

(* reset() at Date.now() = t *)
resetDetector(det, t) ==
    [det EXCEPT !.currentPose = NEUTRAL, !.lastPose = NEUTRAL,
                !.poseHistory = << >>, !.poseStartTime = t]

----------------------------------------------------------------------------
(* PoseDetector driven directly, constructed at clock value DetectorEpoch. *)

MaxDetectCalls == 6
DetectorEpoch == 1000
DetectDeltas == {50, 100}
DetectInputs == {NEUTRAL, "star", "arms_up"}

InitDetector ==
    /\ now = DetectorEpoch
    /\ calls = 0
    /\ poseFSM = << >>
    /\ fsmReturn = << >>
    /\ returnLog = << >>
    /\ lastDetected = << >>
    /\ fsmBefore = << >>
    /\ poses = << >>
    /\ lastFramePoses = << >>
    /\ lastResults = << >>
    /\ lastPrevious = << >>
    /\ frameCount = 0
    /\ personStates = << >>
    /\ lastLockedPoseByPerson = << >>
    /\ matchLog = << >>
    /\ lastReordered = << >>
    /\ stickerAnim = << >>
    /\ animInput = << >>
    /\ lastBundleKey = << >>
    /\ lastSentAt = 0
    /\ clockLead = 0
    /\ sentLog = << >>
    /\ bundleCalls = << >>
    /\ posesKind = ARRAY
    /\ showTracking = FALSE
    /\ showLine = TRUE
    /\ drawThrew = FALSE
    /\ delivered = 0
    /\ consumedAfter = 0
    /\ poseDetector = NewPoseDetector(DetectorEpoch)
    /\ detectRun = << >>
    /\ bridgeMsg = << >>
    /\ bridgeOsc = << >>
    /\ bridgeReply = << >>
    /\ oscWS = [id |-> 1, readyState |-> 0]
    /\ wsQueue = << >>
    /\ wsBackoffMs = 500
    /\ wsTimers = 0
    /\ wsWire = << >>
    /\ wsPassed = 0
    /\ wsQueuedLog = << >>
    /\ wsErrors = 0
    /\ personStableStates = << >>
    /\ personStableCounters = << >>
    /\ personOverlayImages = << >>
    /\ stableRun = << >>
    /\ smoothStore = << >>
    /\ emaInput = << >>
    /\ emaCounts = << >>
    /\ smoothPos = [n |-> 4, d |-> 5]
    /\ smoothScale = [n |-> 17, d |-> 20]

detectorUnchanged ==
    UNCHANGED <<poseFSM, fsmReturn, returnLog, lastDetected, fsmBefore,
                poses, lastFramePoses, lastResults, lastPrevious, matchLog,
                lastReordered, frameCount, personStates, lastLockedPoseByPerson,
                animVars, bundleVars, posesKind, uiVars, feedVars, emaVars,
                stableVars, bridgeVars, wsVars>>

(* detect(landmarks) at clock value now + d.  A throttled call does not    *)
(* look at the landmarks and leaves the run of detections as it is.        *)
DetectCall(detectedPose, d) ==
    /\ calls < MaxDetectCalls
    /\ calls' = calls + 1
    /\ now' = now + d
    /\ poseDetector' = detect(poseDetector, detectedPose, now')
    /\ detectRun' =
          IF now' - poseDetector.lastDetection < THROTTLE_MS THEN detectRun
          ELSE IF detectRun # << >> /\ detectRun.pose = detectedPose THEN detectRun
          ELSE [pose |-> detectedPose, since |-> now']
    /\ detectorUnchanged

ResetCall(d) ==
    /\ calls < MaxDetectCalls
    /\ calls' = calls + 1
    /\ now' = now + d
    /\ poseDetector' = resetDetector(poseDetector, now')
    /\ detectRun' = << >>
    /\ detectorUnchanged

NextDetector ==
    \/ \E detectedPose \in DetectInputs, d \in DetectDeltas : DetectCall(detectedPose, d)
    \/ \E d \in DetectDeltas : ResetCall(d)

SpecDetector == InitDetector /\ [][NextDetector]_vars

----------------------------------------------------------------------------
(* The OSC bridge (osc-bridge/index.js): handleMessage.  A JSON number is  *)
(* [t |-> "number", n, d], the fraction n / d in lowest terms; any other   *)
(* JSON value is [t |-> its type].  An action is a record of its fields    *)
(* (layer, media, either may be absent) or the JSON null.                  *)

JNumber(n, d) == [t |-> "number", n |-> n, d |-> d]
JString == [t |-> "string"]
JNull == [t |-> "null"]

(* typeof v === 'number' && Number.isInteger(v) *)
isIntegerNumber(v) == v.t = "number" /\ v.d = 1

(* const { layer, media } = action ?? {} *)
fieldOf(action, name) ==
    IF action = JNull THEN [t |-> "undefined"]
    ELSE IF name \in DOMAIN action THEN action[name]
    ELSE [t |-> "undefined"]

(* sendOscMessage(layer, media): the message handed to udpPort.send *)
sendOscMessage(layer, media) ==
    [address |-> <<"/md8key/ctrl_layer_media/", layer>>,
     args |-> <<[type |-> "i", value |-> media]>>]

(* The loop over the actions that counts every action. *)
RECURSIVE oscLoop_countAll(_, _, _)
oscLoop_countAll(actions, i, acc) ==
    IF i > Len(actions) THEN acc
    ELSE LET layer == fieldOf(actions[i], "layer")
             media == fieldOf(actions[i], "media")
         IN  IF isIntegerNumber(layer) /\ isIntegerNumber(media)
             THEN oscLoop_countAll(actions, i + 1,
                          [sent |-> Append(acc.sent, sendOscMessage(layer.n, media.n)),
                           count |-> acc.count + 1])
             ELSE oscLoop_countAll(actions, i + 1,
                          [sent |-> acc.sent, count |-> acc.count + 1])

(* "for (const action of actions)": acc is the OSC messages sent so far    *)
(* and count.                                                              *)
RECURSIVE oscLoop(_, _, _)
oscLoop(actions, i, acc) ==
    IF i > Len(actions) THEN acc
    ELSE LET layer == fieldOf(actions[i], "layer")
             media == fieldOf(actions[i], "media")
         IN  IF isIntegerNumber(layer) /\ isIntegerNumber(media)
             THEN oscLoop(actions, i + 1,
                          [sent |-> Append(acc.sent, sendOscMessage(layer.n, media.n)),
                           count |-> acc.count + 1])
             ELSE oscLoop(actions, i + 1, acc)

(* handleMessage(ws, raw): what is sent over UDP and what over ws.  A      *)
(* message is [kind |-> "invalid_json"], [kind |-> "not_object"] or        *)
(* [kind |-> "object", type, actions], actions being [isArray, items]: the *)
(* items of msg.actions when Array.isArray(msg.actions).                   *)
(* handleMessage that leaves a message of an unknown type unanswered. *)
handleMessage_anyType(msg) ==
    IF msg.kind = "invalid_json"
    THEN [osc |-> << >>, reply |-> <<[type |-> "error", reason |-> "invalid_json"]>>]
    ELSE IF msg.kind = "not_object"
    THEN [osc |-> << >>, reply |-> <<[type |-> "error", reason |-> "unsupported_message"]>>]
    ELSE IF msg.type = "ping"
    THEN [osc |-> << >>, reply |-> <<[type |-> "pong"]>>]
    ELSE IF msg.type = "osc"
    THEN LET actions == IF msg.actions.isArray THEN msg.actions.items ELSE << >>
             done == oscLoop(actions, 1, [sent |-> << >>, count |-> 0])
         IN  [osc |-> done.sent, reply |-> <<[type |-> "sent", count |-> done.count]>>]
    ELSE [osc |-> << >>, reply |-> << >>]

handleMessage(msg) ==
    IF msg.kind = "invalid_json"
    THEN [osc |-> << >>, reply |-> <<[type |-> "error", reason |-> "invalid_json"]>>]
    ELSE IF msg.kind = "not_object"
    THEN [osc |-> << >>, reply |-> <<[type |-> "error", reason |-> "unsupported_message"]>>]
    ELSE IF msg.type = "ping"
    THEN [osc |-> << >>, reply |-> <<[type |-> "pong"]>>]
    ELSE IF msg.type = "osc"
    THEN LET actions == IF msg.actions.isArray THEN msg.actions.items ELSE << >>
             done == oscLoop(actions, 1, [sent |-> << >>, count |-> 0])
         IN  [osc |-> done.sent, reply |-> <<[type |-> "sent", count |-> done.count]>>]
    ELSE [osc |-> << >>, reply |-> <<[type |-> "error", reason |-> "unsupported_message"]>>]

----------------------------------------------------------------------------
(* The bridge driven by WebSocket messages: any message with up to         *)
(* MaxActions actions.                                                     *)

MaxActions == 3

BridgeActions ==
    {[layer |-> JNumber(2, 1), media |-> JNumber(8, 1)],
     [layer |-> JNumber(4, 1), media |-> JNumber(1, 1)],
     [layer |-> JNumber(5, 2), media |-> JNumber(8, 1)],
     [layer |-> JNumber(2, 1), media |-> JString],
     [layer |-> JNumber(3, 1)],
     JNull}

RECURSIVE ActionLists(_)
ActionLists(n) ==
    IF n = 0 THEN {<< >>}
    ELSE ActionLists(n - 1)
           \cup {Append(l, a) : l \in {k \in ActionLists(n - 1) : Len(k) = n - 1},
                                a \in BridgeActions}

BridgeMessages ==
    {[kind |-> "invalid_json"], [kind |-> "not_object"]}
      \cup {[kind |-> "object", type |-> type,
              actions |-> [isArray |-> FALSE, items |-> << >>]] :
               type \in {"ping", "osc", "hello", UNDEFINED}}
      \cup {[kind |-> "object", type |-> "osc",
              actions |-> [isArray |-> TRUE, items |-> actions]] :
               actions \in ActionLists(MaxActions)}

InitBridge == InitFSM

HandleMessage(msg) ==
    /\ bridgeMsg' = msg
    /\ bridgeOsc' = handleMessage(msg).osc
    /\ bridgeReply' = handleMessage(msg).reply
    /\ UNCHANGED <<now, calls, poseFSM, fsmReturn, returnLog, lastDetected, fsmBefore,
                   poses, lastFramePoses, lastResults, lastPrevious, matchLog,
                   lastReordered, frameCount, personStates, lastLockedPoseByPerson,
                   animVars, bundleVars, posesKind, uiVars, feedVars, emaVars,
                   stableVars, detectorVars, wsVars>>

NextBridge == \E msg \in BridgeMessages : HandleMessage(msg)

SpecBridge == InitBridge /\ [][NextBridge]_vars

----------------------------------------------------------------------------
(* The relay WebSocket of script.js: wsConnect, its onopen and onclose     *)
(* handlers, and sendOsc.                                                  *)

MaxPayloads == 3
MaxSockets == 3
MaxConnectErrors == 2

(* oscWS while it is null: no socket has been made yet.  The fields stand  *)
(* for no socket number and no readyState.                                 *)
NoSocket == [id |-> 0, readyState |-> -1]

(* "while (wsQueue.length) oscWS.send(wsQueue.shift())" taking the items   *)
(* from the end of the queue.                                              *)
RECURSIVE flushQueue_lifo(_)
flushQueue_lifo(queue) ==
    IF queue = << >> THEN << >>
    ELSE <<queue[Len(queue)]>> \o flushQueue_lifo(SubSeq(queue, 1, Len(queue) - 1))

(* "while (wsQueue.length) oscWS.send(wsQueue.shift())": the payloads      *)
(* sent, in the order they are sent.                                       *)
RECURSIVE flushQueue(_)
flushQueue(queue) ==
    IF queue = << >> THEN << >>
    ELSE <<Head(queue)>> \o flushQueue(Tail(queue))

wsUnchanged ==
    UNCHANGED <<now, calls, poseFSM, fsmReturn, returnLog, lastDetected, fsmBefore,
                poses, lastFramePoses, lastResults, lastPrevious, matchLog,
                lastReordered, frameCount, personStates, lastLockedPoseByPerson,
                animVars, bundleVars, posesKind, uiVars, feedVars, emaVars,
                stableVars, detectorVars, bridgeVars>>

(* wsConnect(), called by a timer; throws tells whether new WebSocket()    *)
(* throws, which leaves oscWS as it was and sets a timer.                  *)
wsConnect(throws) ==
    IF oscWS # NoSocket /\ oscWS.readyState \in {0, 1}
    THEN UNCHANGED <<oscWS, wsErrors>> /\ wsTimers' = wsTimers - 1
    ELSE IF throws
    THEN /\ wsErrors' = wsErrors + 1
         /\ wsTimers' = wsTimers - 1 + 1
         /\ UNCHANGED oscWS
    ELSE /\ oscWS' = [id |-> oscWS.id + 1, readyState |-> 0]
         /\ wsTimers' = wsTimers - 1
         /\ UNCHANGED wsErrors

(* The state after the wsConnect() call made when the script is loaded:    *)
(* the first socket, connecting, or, when new WebSocket() threw, oscWS     *)
(* still null and one timer set.                                           *)
InitWs ==
    /\ InitDeclared
    /\ clockLead = 0
    /\ \/ /\ oscWS = [id |-> 1, readyState |-> 0]
          /\ wsTimers = 0
          /\ wsErrors = 0
       \/ /\ oscWS = NoSocket
          /\ wsTimers = 1
          /\ wsErrors = 1

(* A setTimeout(wsConnect, wsBackoffMs) timer fires. *)
WsTimer(throws) ==
    /\ wsTimers > 0
    /\ throws => wsErrors < MaxConnectErrors
    /\ (~throws /\ (oscWS = NoSocket \/ oscWS.readyState \notin {0, 1}))
         => oscWS.id < MaxSockets
    /\ wsConnect(throws)
    /\ UNCHANGED <<wsQueue, wsBackoffMs, wsWire, wsPassed, wsQueuedLog>>
    /\ wsUnchanged

(* The connection is established: readyState becomes 1 and onopen runs. *)
WsOpen ==
    /\ oscWS # NoSocket
    /\ oscWS.readyState = 0
    /\ oscWS' = [oscWS EXCEPT !.readyState = 1]
    /\ wsBackoffMs' = 500
    /\ wsWire' = wsWire \o flushQueue(wsQueue)
    /\ wsQueue' = << >>
    /\ UNCHANGED <<wsTimers, wsPassed, wsQueuedLog, wsErrors>>
    /\ wsUnchanged

(* The closing handshake of an open socket starts: readyState becomes 2. *)
WsClosing ==
    /\ oscWS # NoSocket
    /\ oscWS.readyState = 1
    /\ oscWS' = [oscWS EXCEPT !.readyState = 2]
    /\ UNCHANGED <<wsQueue, wsBackoffMs, wsTimers, wsWire, wsPassed,
                   wsQueuedLog, wsErrors>>
    /\ wsUnchanged

(* The socket is closed (or the connection attempt fails): readyState      *)
(* becomes 3 and onclose runs.                                             *)
WsClosed ==
    /\ oscWS # NoSocket
    /\ oscWS.readyState \in {0, 1, 2}
    /\ oscWS' = [oscWS EXCEPT !.readyState = 3]
    /\ wsTimers' = wsTimers + 1
    /\ wsBackoffMs' = IF wsBackoffMs * 2 < 4000 THEN wsBackoffMs * 2 ELSE 4000
    /\ UNCHANGED <<wsQueue, wsWire, wsPassed, wsQueuedLog, wsErrors>>
    /\ wsUnchanged

(* sendOsc(actions), the payload numbered by the call. *)
sendOsc(payload) ==
    IF oscWS # NoSocket /\ oscWS.readyState = 1
    THEN /\ wsWire' = Append(wsWire, payload)
         /\ UNCHANGED <<wsQueue, wsQueuedLog>>
    ELSE /\ wsQueue' = Append(wsQueue, payload)
         /\ wsQueuedLog' = Append(wsQueuedLog, payload)
         /\ UNCHANGED wsWire

(* The sendOsc calls one handler makes, in order: the socket does not     *)
(* change its state between them, so all are sent or all are queued.       *)
sendOscAll(payloads) ==
    /\ wsPassed' = wsPassed + Len(payloads)
    /\ IF oscWS # NoSocket /\ oscWS.readyState = 1
       THEN /\ wsWire' = wsWire \o payloads
            /\ UNCHANGED <<wsQueue, wsQueuedLog>>
       ELSE /\ wsQueue' = wsQueue \o payloads
            /\ wsQueuedLog' = wsQueuedLog \o payloads
            /\ UNCHANGED wsWire
    /\ UNCHANGED <<oscWS, wsBackoffMs, wsTimers, wsErrors>>

SendOsc ==
    /\ wsPassed < MaxPayloads
    /\ wsPassed' = wsPassed + 1
    /\ sendOsc(wsPassed')
    /\ UNCHANGED <<oscWS, wsBackoffMs, wsTimers, wsErrors>>
    /\ wsUnchanged

NextWs ==
    \/ \E throws \in BOOLEAN : WsTimer(throws)
    \/ WsOpen
    \/ WsClosing
    \/ WsClosed
    \/ SendOsc

SpecWs == InitWs /\ [][NextWs]_vars

----------------------------------------------------------------------------
(* Smoothing: emaPoint and emaScalar, in exact fractions.  smoothStore     *)
(* maps a person index to [points, scalars]: the smoothed points by key    *)
(* name and the smoothed scalars (_scalars) by name.                       *)

SMOOTH_POS == Rat(80, 100)
SMOOTH_SCALE == Rat(85, 100)

(* smoothStore[pIdx] ??= { _scalars: {} } *)
smoothEntry(store, pIdx) ==
    IF pIdx \in DOMAIN store THEN store[pIdx]
    ELSE [points |-> << >>, scalars |-> << >>]

(* ema with the weights of the old and the new value exchanged. *)
ema_swapped(a, prev, value) == RatAdd(RatMul(RatSub(One, a), prev), RatMul(a, value))

(* a * prev + (1 - a) * value *)
ema(a, prev, value) == RatAdd(RatMul(a, prev), RatMul(RatSub(One, a), value))

(* The store after emaPoint(pIdx, keyName, x, y) with SMOOTH_POS = a. *)
emaPoint(store, pIdx, keyName, x, y, a) ==
    LET entry == smoothEntry(store, pIdx)
        s == IF keyName \in DOMAIN entry.points THEN entry.points[keyName]
             ELSE [x |-> x, y |-> y]
        smoothed == [x |-> ema(a, s.x, x), y |-> ema(a, s.y, y)]
    IN  (pIdx :> [entry EXCEPT !.points = (keyName :> smoothed) @@ entry.points])
          @@ store

(* The store after emaScalar(pIdx, name, value) with SMOOTH_SCALE = a. *)
emaScalar(store, pIdx, name, value, a) ==
    LET entry == smoothEntry(store, pIdx)
        prev == IF name \in DOMAIN entry.scalars THEN entry.scalars[name] ELSE value
        v == ema(a, prev, value)
    IN  (pIdx :> [entry EXCEPT !.scalars = (name :> v) @@ entry.scalars]) @@ store

----------------------------------------------------------------------------
(* emaPoint and emaScalar driven directly: any raw value in any order, the *)
(* smoothing factors as shipped or set to 0.                               *)

MaxEmaCalls == 5
EmaPoints == {<<0, 50>>, <<100, 50>>, <<100, 250>>}
EmaScalars == {0, 40}
EmaPids == {0}

InitEma ==
    /\ now = 0
    /\ calls = 0
    /\ poseFSM = << >>
    /\ fsmReturn = << >>
    /\ returnLog = << >>
    /\ lastDetected = << >>
    /\ fsmBefore = << >>
    /\ poses = << >>
    /\ lastFramePoses = << >>
    /\ lastResults = << >>
    /\ lastPrevious = << >>
    /\ frameCount = 0
    /\ personStates = << >>
    /\ lastLockedPoseByPerson = << >>
    /\ matchLog = << >>
    /\ lastReordered = << >>
    /\ stickerAnim = << >>
    /\ animInput = << >>
    /\ lastBundleKey = << >>
    /\ lastSentAt = 0
    /\ clockLead = 0
    /\ sentLog = << >>
    /\ bundleCalls = << >>
    /\ posesKind = ARRAY
    /\ showTracking = FALSE
    /\ showLine = TRUE
    /\ drawThrew = FALSE
    /\ delivered = 0
    /\ consumedAfter = 0
    /\ poseDetector = [lastDetection |-> 0, lastPose |-> NEUTRAL,
                       currentPose |-> NEUTRAL, poseStartTime |-> 0,
                       poseHistory |-> << >>]
    /\ detectRun = << >>
    /\ bridgeMsg = << >>
    /\ bridgeOsc = << >>
    /\ bridgeReply = << >>
    /\ oscWS = [id |-> 1, readyState |-> 0]
    /\ wsQueue = << >>
    /\ wsBackoffMs = 500
    /\ wsTimers = 0
    /\ wsWire = << >>
    /\ wsPassed = 0
    /\ wsQueuedLog = << >>
    /\ wsErrors = 0
    /\ personStableStates = << >>
    /\ personStableCounters = << >>
    /\ personOverlayImages = << >>
    /\ stableRun = << >>
    /\ smoothStore = << >>
    /\ emaInput = << >>
    /\ emaCounts = << >>
    /\ smoothPos \in {SMOOTH_POS, Zero}
    /\ smoothScale \in {SMOOTH_SCALE, Zero}

(* The call just made: which function, on which person and name, the raw   *)
(* value, the number of consecutive calls with these arguments (run) and   *)
(* the smoothed value before the first of them (start: the raw value when  *)
(* there was none).                                                        *)
emaCallRecord(fn, pIdx, name, raw, before) ==
    LET same == /\ emaInput # << >>
                /\ emaInput.fn = fn /\ emaInput.pIdx = pIdx
                /\ emaInput.name = name /\ emaInput.raw = raw
    IN  [fn |-> fn, pIdx |-> pIdx, name |-> name, raw |-> raw,
         run |-> IF same THEN emaInput.run + 1 ELSE 1,
         start |-> IF same THEN emaInput.start ELSE before]

emaUnchanged ==
    UNCHANGED <<now, poseFSM, fsmReturn, returnLog, lastDetected, fsmBefore,
                poses, lastFramePoses, lastResults, lastPrevious, matchLog,
                lastReordered, frameCount, personStates, lastLockedPoseByPerson,
                animVars, bundleVars, posesKind, uiVars, feedVars,
                smoothPos, smoothScale, emaCounts, stableVars, detectorVars,
                bridgeVars, wsVars>>

EmaPointCall(pIdx, keyName, x, y) ==
    /\ calls < MaxEmaCalls
    /\ calls' = calls + 1
    /\ smoothStore' = emaPoint(smoothStore, pIdx, keyName, Rat(x, 1), Rat(y, 1), smoothPos)
    /\ LET entry == smoothEntry(smoothStore, pIdx)
           raw == [x |-> Rat(x, 1), y |-> Rat(y, 1)]
       IN  emaInput' = emaCallRecord("emaPoint", pIdx, keyName, raw,
                           IF keyName \in DOMAIN entry.points
                           THEN entry.points[keyName] ELSE raw)
    /\ emaUnchanged

EmaScalarCall(pIdx, name, value) ==
    /\ calls < MaxEmaCalls
    /\ calls' = calls + 1
    /\ smoothStore' = emaScalar(smoothStore, pIdx, name, Rat(value, 1), smoothScale)
    /\ LET entry == smoothEntry(smoothStore, pIdx)
           raw == Rat(value, 1)
       IN  emaInput' = emaCallRecord("emaScalar", pIdx, name, raw,
                           IF name \in DOMAIN entry.scalars
                           THEN entry.scalars[name] ELSE raw)
    /\ emaUnchanged

NextEma ==
    \/ \E pIdx \in EmaPids, p \in EmaPoints : EmaPointCall(pIdx, "nose", p[1], p[2])
    \/ \E pIdx \in EmaPids, v \in EmaScalars : EmaScalarCall(pIdx, "shoulderWidth", v)

SpecEma == InitEma /\ [][NextEma]_vars

----------------------------------------------------------------------------
(* Show-control relay: POSE_TO_BUNDLE, keyOfBundle, maybeSendBundle.  A    *)
(* bundle key "2:8|3:9|..." is the sequence of its <<layer, media>> pairs, *)
(* the empty string the empty sequence.  maybeSendBundle reads             *)
(* performance.now(), the pose FSM and the sticker animation read          *)
(* millis(): lastSentAt and the times of sentLog are performance.now()     *)
(* values.                                                                 *)

LAYERS == [FLOWER_A |-> 2, FLOWER_B |-> 3, BIRD_A |-> 4, BIRD_B |-> 5]
BIRDS == <<1, 2, 3, 4, 5, 6, 7>>
FLOWERS == <<8, 9, 10, 11, 12, 13, 14, 15, 16, 17, 18, 19>>

Action(layer, media) == [layer |-> layer, media |-> media]

POSE_TO_BUNDLE ==
    [star |-> <<Action(LAYERS.FLOWER_A, FLOWERS[1]), Action(LAYERS.FLOWER_B, FLOWERS[2]),
                Action(LAYERS.BIRD_A, BIRDS[1]), Action(LAYERS.BIRD_B, BIRDS[2])>>,
     arms_out |-> <<Action(LAYERS.FLOWER_A, FLOWERS[3]), Action(LAYERS.FLOWER_B, FLOWERS[4]),
                    Action(LAYERS.BIRD_A, BIRDS[3]), Action(LAYERS.BIRD_B, BIRDS[4])>>,
     zigzag |-> <<Action(LAYERS.FLOWER_A, FLOWERS[5]), Action(LAYERS.FLOWER_B, FLOWERS[6]),
                  Action(LAYERS.BIRD_A, BIRDS[5]), Action(LAYERS.BIRD_B, BIRDS[6])>>,
     side_arms |-> <<Action(LAYERS.FLOWER_A, FLOWERS[7]), Action(LAYERS.FLOWER_B, FLOWERS[8]),
                     Action(LAYERS.BIRD_A, BIRDS[2]), Action(LAYERS.BIRD_B, BIRDS[3])>>,
     rounded |-> <<Action(LAYERS.FLOWER_A, FLOWERS[9]), Action(LAYERS.FLOWER_B, FLOWERS[10]),
                   Action(LAYERS.BIRD_A, BIRDS[4]), Action(LAYERS.BIRD_B, BIRDS[5])>>,
     arms_up |-> <<Action(LAYERS.FLOWER_A, FLOWERS[11]), Action(LAYERS.FLOWER_B, FLOWERS[12]),
                   Action(LAYERS.BIRD_A, BIRDS[6]), Action(LAYERS.BIRD_B, BIRDS[7])>>]

GLOBAL_DEBOUNCE_MS == 600

keyOfBundle(bundle) ==
    LET sorted == SortSeq(bundle, LAMBDA a, b : a.layer < b.layer)
    IN  [i \in 1..Len(sorted) |-> <<sorted[i].layer, sorted[i].media>>]

(* The relay state: lastBundleKey, lastSentAt and the bundles handed to    *)
(* sendOsc, each with the time it was sent.                                *)
Relay(key, at, log) == [lastBundleKey |-> key, lastSentAt |-> at, sentLog |-> log]

(* maybeSendBundle without the test of the time since the last send. *)
maybeSendBundle_noDebounce(relay, bundle, t) ==
    LET k == keyOfBundle(bundle)
    IN  IF k = relay.lastBundleKey THEN relay
        ELSE Relay(k, t, Append(relay.sentLog, [key |-> k, at |-> t]))

(* maybeSendBundle that does not record the time of the send. *)
maybeSendBundle_noStamp(relay, bundle, t) ==
    IF t - relay.lastSentAt < GLOBAL_DEBOUNCE_MS THEN relay
    ELSE LET k == keyOfBundle(bundle)
         IN  IF k = relay.lastBundleKey THEN relay
             ELSE Relay(k, relay.lastSentAt,
                        Append(relay.sentLog, [key |-> k, at |-> t]))

(* The relay state after maybeSendBundle(bundle) at time t.  A call that   *)
(* sends appends to sentLog; the sendOsc(bundle) it makes is applied to    *)
(* the socket and the queue by the handler (relayPayloads, sendOscAll).    *)
maybeSendBundle(relay, bundle, t) ==
    IF t - relay.lastSentAt < GLOBAL_DEBOUNCE_MS THEN relay
    ELSE LET k == keyOfBundle(bundle)
         IN  IF k = relay.lastBundleKey THEN relay
             ELSE Relay(k, t, Append(relay.sentLog, [key |-> k, at |-> t]))

(* "sendOsc(bundle)": the bundles that the maybeSendBundle calls of one    *)
(* handler pass to sendOsc, in call order.  made holds the calls, each     *)
(* with the pose whose bundle it was given and whether it sent.            *)
RECURSIVE relayPayloads(_)
relayPayloads(made) ==
    IF made = << >> THEN << >>
    ELSE (IF Head(made).sent THEN <<POSE_TO_BUNDLE[Head(made).pose]>> ELSE << >>)
           \o relayPayloads(Tail(made))

----------------------------------------------------------------------------
(* maybeSendBundle driven directly: any pose's bundle, any clock step.     *)

MaxBundleCalls == 4

BundleDeltas == {0, 1, 599, 600}
BundleInputs == {"star", "arms_up", "arms_out"}

InitBundle == InitSketch

BundleCall(pose, d) ==
    /\ calls < MaxBundleCalls
    /\ calls' = calls + 1
    /\ now' = now + d
    /\ LET relay == maybeSendBundle(Relay(lastBundleKey, lastSentAt, sentLog),
                                    POSE_TO_BUNDLE[pose], performanceNow(now'))
       IN  /\ lastBundleKey' = relay.lastBundleKey
           /\ lastSentAt' = relay.lastSentAt
           /\ sentLog' = relay.sentLog
           /\ bundleCalls' = <<[pid |-> 0, pose |-> pose,
                                sent |-> Len(relay.sentLog) > Len(sentLog)]>>
    /\ sendOscAll(relayPayloads(bundleCalls'))
    /\ UNCHANGED <<poseFSM, fsmReturn, returnLog, lastDetected, fsmBefore,
                   poses, lastFramePoses, lastResults, lastPrevious, matchLog,
                   lastReordered, frameCount, personStates,
                   lastLockedPoseByPerson, animVars, posesKind, uiVars, feedVars,
                   emaVars, stableVars, detectorVars, bridgeVars, clockLead>>

NextBundle == \E pose \in BundleInputs, d \in BundleDeltas : BundleCall(pose, d)

SpecBundle == InitBundle /\ [][NextBundle]_vars

----------------------------------------------------------------------------
(* The per-frame pipeline: detector callbacks (gotPoses) and frame ticks   *)
(* (draw).                                                                 *)

MaxFrames == 3
DrawDeltas == {16, 400, 1250}

Kp(x, y, c) == [x |-> x, y |-> y, c |-> c]

(* A full skeleton with the torso at the default place and the given arms  *)
(* and ankles.                                                             *)
Body(leftElbow, leftWrist, rightElbow, rightWrist, leftAnkle, rightAnkle) ==
    [nose |-> Kp(320, 100, 90),
     left_shoulder |-> Kp(280, 160, 90), right_shoulder |-> Kp(360, 160, 90),
     left_elbow |-> leftElbow, right_elbow |-> rightElbow,
     left_wrist |-> leftWrist, right_wrist |-> rightWrist,
     left_hip |-> Kp(295, 300, 90), right_hip |-> Kp(345, 300, 90),
     left_ankle |-> leftAnkle, right_ankle |-> rightAnkle]

StandingBody ==
    Body(Kp(270, 230, 90), Kp(265, 300, 90), Kp(370, 230, 90), Kp(375, 300, 90),
         Kp(300, 450, 90), Kp(340, 450, 90))

ArmsUpBody ==
    Body(Kp(275, 90, 90), Kp(270, 20, 90), Kp(365, 90, 90), Kp(370, 20, 90),
         Kp(300, 450, 90), Kp(340, 450, 90))

ArmsOutBody ==
    Body(Kp(220, 160, 90), Kp(160, 160, 90), Kp(420, 160, 90), Kp(480, 160, 90),
         Kp(300, 450, 90), Kp(340, 450, 90))

FramePool == {StandingBody, ArmsUpBody}

(* fsmFrame with one entry object shared by the slots: every call reads   *)
(* and writes the entry of slot 0, which all the slots of the frame hold.  *)
RECURSIVE fsmFrame_shared(_, _, _, _)
fsmFrame_shared(fsm, states, i, t) ==
    IF i > Len(states) THEN fsm
    ELSE LET s == fsmUpdate(fsm, 0, states[i], NoInfo, t)
         IN  fsmFrame_shared([q \in DOMAIN fsm \cup {0, i - 1} |->
                                 IF q \in {0, i - 1} THEN s ELSE fsm[q]],
                             states, i + 1, t)

(* The poseFSM after the fsmUpdate calls of the slots i..n of one frame. *)
RECURSIVE fsmFrame(_, _, _, _)
fsmFrame(fsm, states, i, t) ==
    IF i > Len(states) THEN fsm
    ELSE fsmFrame(((i - 1) :> fsmUpdate(fsm, i - 1, states[i], NoInfo, t)) @@ fsm,
                  states, i + 1, t)

(* lastLockedPoseByPerson[pid] *)
lastLockedEntry(lastLocked, pid) ==
    IF pid \in DOMAIN lastLocked THEN lastLocked[pid] ELSE UNDEFINED

(* "Log transitions for tuning" for the slots i..n of one frame, in slot   *)
(* order: acc is the relay state and the maybeSendBundle calls made so far *)
(* in the frame, each with whether it sent.                                *)
RECURSIVE sendFrame(_, _, _, _, _, _)
sendFrame(acc, fsm, lastLocked, n, i, t) ==
    IF i > n THEN acc
    ELSE LET pid == i - 1
             lockedPose == fsm[pid].lockedPose
             send == /\ lockedPose # lastLockedEntry(lastLocked, pid)
                     /\ Truthy(lockedPose)
                     /\ lockedPose # NEUTRAL
                     /\ lockedPose \in DOMAIN POSE_TO_BUNDLE
             relay == IF send
                      THEN maybeSendBundle(acc.relay, POSE_TO_BUNDLE[lockedPose], t)
                      ELSE acc.relay
             made == IF send
                     THEN Append(acc.calls,
                                 [pid |-> pid, pose |-> lockedPose,
                                  sent |-> Len(relay.sentLog) > Len(acc.relay.sentLog)])
                     ELSE acc.calls
         IN  sendFrame([relay |-> relay, calls |-> made], fsm, lastLocked, n, i + 1, t)

(* bodyPose.getSkeleton(): the pairs of keypoints joined by a line, those   *)
(* between keypoints the skeletons here carry, in the order of the array   *)
(* ([5,6], [5,7], [5,11], [6,8], [6,12], [7,9], [8,10], [11,12]).          *)
connections ==
    <<<<"left_shoulder", "right_shoulder">>,
      <<"left_shoulder", "left_elbow">>, <<"left_shoulder", "left_hip">>,
      <<"right_shoulder", "right_elbow">>, <<"right_shoulder", "right_hip">>,
      <<"left_elbow", "left_wrist">>, <<"right_elbow", "right_wrist">>,
      <<"left_hip", "right_hip">>>>

(* "pointA.confidence > 0.1 && pointB.confidence > 0.1" reads a property   *)
(* of undefined when pose.keypoints has no entry for the keypoint.         *)
connectionThrows(pose) ==
    \E j \in 1..Len(connections) :
        LET c == connections[j]
        IN  \/ ~Has(pose, c[1])
            \/ Has(pose, c[1]) /\ pose[c[1]].c > 10 /\ ~Has(pose, c[2])

(* The first slot at which the loop over the poses throws, 0 when none.    *)
firstThrow(ps, tracking) ==
    IF tracking /\ \E i \in 1..Len(ps) : connectionThrows(ps[i])
    THEN CHOOSE i \in 1..Len(ps) :
            /\ connectionThrows(ps[i])
            /\ \A j \in 1..(i - 1) : ~connectionThrows(ps[j])
    ELSE 0

(* resizeStateArrays(numPersons) on personStates *)
resizeStateArrays(states, numPersons) == resized(states, numPersons, NEUTRAL)

(* draw at clock value now + d: resizeStateArrays, then for every pose the *)
(* lines of the skeleton when tracking is shown, analyzeState, fsmUpdate,  *)
(* the bookkeeping of the locked pose with maybeSendBundle, and then       *)
(* updateStickerAnim for every pose.  poses.length throws when poses is    *)
(* null or undefined; a throw in the loop leaves the slots before it       *)
(* processed.                                                              *)
----------------------------------------------------------------------------
(* The emaPoint calls of one rendered frame.  A call is [key, x, y]; the   *)
(* tracking layer keys a keypoint by its index in pose.keypoints           *)
(* ("kp5"), the outline and the sticker by its name.                       *)

kpKey(name) ==
    CASE name = "nose" -> "kp0"
      [] name = "left_eye" -> "kp1" [] name = "right_eye" -> "kp2"
      [] name = "left_ear" -> "kp3" [] name = "right_ear" -> "kp4"
      [] name = "left_shoulder" -> "kp5" [] name = "right_shoulder" -> "kp6"
      [] name = "left_elbow" -> "kp7" [] name = "right_elbow" -> "kp8"
      [] name = "left_wrist" -> "kp9" [] name = "right_wrist" -> "kp10"
      [] name = "left_hip" -> "kp11" [] name = "right_hip" -> "kp12"
      [] name = "left_knee" -> "kp13" [] name = "right_knee" -> "kp14"
      [] name = "left_ankle" -> "kp15" [] name = "right_ankle" -> "kp16"

emaCall(key, kp) == [key |-> key, x |-> kp.x, y |-> kp.y]

(* The order in which drawOrganicOutline adds its points. *)
outlineNames ==
    <<"nose", "right_ear", "right_shoulder", "right_elbow", "right_wrist",
      "right_hip", "right_knee", "right_ankle", "left_ankle", "left_knee",
      "left_hip", "left_wrist", "left_elbow", "left_shoulder", "left_ear">>

(* addPoint: "if (kp && kp.confidence > 0.2)" *)
RECURSIVE outlineCalls(_, _)
outlineCalls(pose, k) ==
    IF k > Len(outlineNames) THEN << >>
    ELSE LET name == outlineNames[k]
         IN  (IF Has(pose, name) /\ pose[name].c > 20
              THEN <<emaCall(name, pose[name])>> ELSE << >>)
               \o outlineCalls(pose, k + 1)

(* The connection loop from connections[j] on: both ends of every          *)
(* connection whose two keypoints have confidence > 0.1, in the order of   *)
(* the array, up to the connection at which the loop throws.               *)
RECURSIVE connectionCalls(_, _)
connectionCalls(pose, j) ==
    IF j > Len(connections) THEN << >>
    ELSE LET c == connections[j]
         IN  IF ~Has(pose, c[1]) \/ (pose[c[1]].c > 10 /\ ~Has(pose, c[2]))
             THEN << >>
             ELSE (IF pose[c[1]].c > 10 /\ Has(pose, c[2]) /\ pose[c[2]].c > 10
                   THEN <<emaCall(kpKey(c[1]), pose[c[1]]),
                          emaCall(kpKey(c[2]), pose[c[2]])>>
                   ELSE << >>)
                    \o connectionCalls(pose, j + 1)

(* The keypoint loop: every keypoint with confidence > 0.1. *)
RECURSIVE keypointCalls(_, _)
keypointCalls(pose, names) ==
    IF names = {} THEN << >>
    ELSE LET name == CHOOSE e \in names : TRUE
         IN  (IF pose[name].c > 10
              THEN <<emaCall(kpKey(name), pose[name])>> ELSE << >>)
               \o keypointCalls(pose, names \ {name})

(* Whether drawPersonSticker gets past its early returns, and its emaPoint *)
(* calls: the shoulders, and the hips when both are confident.             *)
stickerDrawn(pose, overlayImage) ==
    /\ overlayImage # NULL
    /\ Has(pose, "left_shoulder") /\ Has(pose, "right_shoulder")
    /\ pose["left_shoulder"].c >= 30 /\ pose["right_shoulder"].c >= 30

stickerCalls(pose, overlayImage) ==
    IF ~stickerDrawn(pose, overlayImage) THEN << >>
    ELSE <<emaCall("left_shoulder", pose["left_shoulder"]),
           emaCall("right_shoulder", pose["right_shoulder"])>>
          \o (IF Has(pose, "left_hip") /\ Has(pose, "right_hip")
                  /\ pose["left_hip"].c >= 30 /\ pose["right_hip"].c >= 30
               THEN <<emaCall("left_hip", pose["left_hip"]),
                      emaCall("right_hip", pose["right_hip"])>>
               ELSE << >>)

(* The emaPoint calls one frame makes for a slot: the outline, the two     *)
(* loops of the tracking layer, and the sticker.  The slot whose           *)
(* connection loop throws a TypeError does not reach its keypoint loop,    *)
(* and a frame that ends with the TypeError does not reach the stickers.   *)
slotCalls(pose, line, tracking, overlayImage, threw) ==
    (IF line THEN outlineCalls(pose, 1) ELSE << >>)
      \o (IF tracking
           THEN connectionCalls(pose, 1)
                  \o (IF connectionThrows(pose) THEN << >>
                      ELSE keypointCalls(pose, DOMAIN pose))
           ELSE << >>)
      \o (IF threw THEN << >> ELSE stickerCalls(pose, overlayImage))

(* The store after the emaPoint calls of a slot, and after the emaScalar   *)
(* call of its sticker on the distance of the smoothed shoulders.  Every   *)
(* emaPoint call leaves its key in the store, so the test below is always  *)
(* true; it makes each call's store a value before the next call reads it. *)
RECURSIVE applyCalls(_, _, _, _, _)
applyCalls(store, pIdx, cs, k, a) ==
    IF k > Len(cs) THEN store
    ELSE LET next == emaPoint(store, pIdx, cs[k].key, Rat(cs[k].x, 1),
                              Rat(cs[k].y, 1), a)
         IN  IF cs[k].key \in DOMAIN next[pIdx].points
             THEN applyCalls(next, pIdx, cs, k + 1, a)
             ELSE next

slotStore(store, pIdx, pose, line, tracking, overlayImage, threw, a, aScale) ==
    LET points == applyCalls(store, pIdx,
                             slotCalls(pose, line, tracking, overlayImage, threw),
                             1, a)
    IN  IF threw \/ ~stickerDrawn(pose, overlayImage) THEN points
        ELSE LET LS == points[pIdx].points["left_shoulder"]
                 RS == points[pIdx].points["right_shoulder"]
                 w == RatSub(LS.x, RS.x)
             IN  emaScalar(points, pIdx, "shoulderWidth",
                           IF RatLess(w, Zero) THEN RatSub(Zero, w) ELSE w,
                           aScale)

(* The slots a frame renders: all of them, or those up to the slot at      *)
(* which the tracking layer throws (none when poses.length throws).        *)
renderedSlots(ps, tracking, threw) ==
    IF threw THEN firstThrow(ps, tracking) ELSE Len(ps)

RECURSIVE frameStoreFrom(_, _, _, _, _, _, _, _, _)
frameStoreFrom(store, ps, i, line, tracking, images, threw, a, aScale) ==
    IF i > renderedSlots(ps, tracking, threw) THEN store
    ELSE frameStoreFrom(slotStore(store, i - 1, ps[i], line, tracking,
                                  images[i], threw, a, aScale),
                        ps, i + 1, line, tracking, images, threw, a, aScale)

frameStore(store, ps, line, tracking, images, threw, a, aScale) ==
    frameStoreFrom(store, ps, 1, line, tracking, images, threw, a, aScale)

(* For every rendered slot and every key the frame smoothed, the number of *)
(* emaPoint calls made on it.                                              *)
frameCounts(ps, line, tracking, images, threw) ==
    [pid \in 0..(renderedSlots(ps, tracking, threw) - 1) |->
        LET cs == slotCalls(ps[pid + 1], line, tracking, images[pid + 1], threw)
        IN  [key \in {cs[k].key : k \in 1..Len(cs)} |->
                Cardinality({k \in 1..Len(cs) : cs[k].key = key})]]

(* draw() up to its emaPoint and emaScalar calls, which draw adds. *)
drawCore(d) ==
    /\ frameCount < MaxFrames
    /\ frameCount' = frameCount + 1
    /\ now' = now + d
    /\ consumedAfter' = delivered
    /\ delivered' = 0
    /\ IF posesKind # ARRAY
       THEN /\ drawThrew' = TRUE
            /\ bundleCalls' = << >>
            /\ UNCHANGED <<personStates, poseFSM, fsmReturn, returnLog, lastDetected, fsmBefore,
                           lastLockedPoseByPerson, animVars, lastBundleKey,
                           lastSentAt, sentLog,
                           personStableStates, personStableCounters,
                           personOverlayImages, wsVars>>
       ELSE
       LET thrower == firstThrow(poses, showTracking)
           n == IF thrower = 0 THEN Len(poses) ELSE thrower - 1
           sized == resizeStateArrays(personStates, Len(poses))
       IN
       /\ drawThrew' = (thrower # 0)
       /\ personStates' = [i \in 1..Len(poses) |->
                               IF i <= n THEN analyzeState(poses[i]) ELSE sized[i]]
       /\ poseFSM' = fsmFrame(poseFSM, SubSeq(personStates', 1, n), 1, now')
       /\ fsmReturn' = [pid \in 0..(n - 1) |-> poseFSM'[pid].lockedPose]
                         @@ fsmReturn
       /\ returnLog' = [pid \in 0..(n - 1) |->
                            logReturn(returnLog, pid, poseFSM'[pid].lockedPose)]
                         @@ returnLog
       /\ lastDetected' = [pid \in 0..(n - 1) |-> personStates'[pid + 1]]
                            @@ lastDetected
       /\ UNCHANGED fsmBefore
       /\ lastLockedPoseByPerson' =
              [pid \in 0..(n - 1) |-> poseFSM'[pid].lockedPose]
                @@ lastLockedPoseByPerson
       /\ LET sends == sendFrame([relay |-> Relay(lastBundleKey, lastSentAt, sentLog),
                                   calls |-> << >>],
                                  poseFSM', lastLockedPoseByPerson, n, 1,
                                  performanceNow(now'))
          IN  /\ lastBundleKey' = sends.relay.lastBundleKey
              /\ lastSentAt' = sends.relay.lastSentAt
              /\ sentLog' = sends.relay.sentLog
              /\ bundleCalls' = sends.calls
       /\ sendOscAll(relayPayloads(bundleCalls'))
       /\ personStableStates' = resized(personStableStates, Len(poses), NEUTRAL)
       /\ personStableCounters' = resized(personStableCounters, Len(poses), 0)
       /\ IF thrower # 0
          THEN UNCHANGED animVars
          ELSE /\ stickerAnim' = [pid \in 0..(Len(poses) - 1) |->
                                     updateStickerAnim(stickerAnim, pid,
                                                       poseFSM'[pid].lockedPose, now')]
                                   @@ stickerAnim
               /\ animInput' = [pid \in 0..(Len(poses) - 1) |->
                                   poseFSM'[pid].lockedPose]
                                 @@ animInput
       /\ personOverlayImages' =
              IF thrower # 0 THEN resized(personOverlayImages, Len(poses), NULL)
              ELSE [i \in 1..Len(poses) |-> stickerAnim'[i - 1].currentImage]
    /\ UNCHANGED <<calls, poses, lastFramePoses, lastResults, lastPrevious, matchLog,
                   lastReordered, posesKind, showTracking, showLine,
                   stableRun, detectorVars, bridgeVars, clockLead>>

(* draw(): drawCore with the emaPoint and emaScalar calls of the layers.   *)
(* emaCounts is, for the last frame, the number of emaPoint calls made on  *)
(* every (slot, key).                                                      *)
draw(d) ==
    /\ drawCore(d)
    /\ smoothStore' = frameStore(smoothStore, poses, showLine, showTracking,
                                 personOverlayImages', drawThrew', smoothPos,
                                 smoothScale)
    /\ emaCounts' = frameCounts(poses, showLine, showTracking,
                                personOverlayImages', drawThrew')
    /\ UNCHANGED <<emaInput, smoothPos, smoothScale>>

GotPoses(results) ==
    /\ gotPoses(results)
    /\ UNCHANGED <<now, calls, poseFSM, fsmReturn, returnLog, lastDetected, fsmBefore,
                   lastResults, lastPrevious, matchLog, lastReordered,
                   frameCount, personStates, lastLockedPoseByPerson,
                   animVars, bundleVars, uiVars, feedVars, emaVars, stableVars, detectorVars, bridgeVars, wsVars>>

GotNoPoses(results) ==
    /\ gotPosesNone(results)
    /\ UNCHANGED <<now, calls, poseFSM, fsmReturn, returnLog, lastDetected, fsmBefore,
                   lastResults, lastPrevious, matchLog, lastReordered,
                   frameCount, personStates, lastLockedPoseByPerson,
                   animVars, bundleVars, uiVars, feedVars, emaVars, stableVars, detectorVars, bridgeVars, wsVars>>

toggleTracking ==
    /\ showTracking' = ~showTracking
    /\ UNCHANGED <<now, calls, poseFSM, fsmReturn, returnLog, lastDetected, fsmBefore,
                   poses, lastFramePoses, lastResults, lastPrevious, matchLog,
                   lastReordered, frameCount, personStates, lastLockedPoseByPerson,
                   animVars, bundleVars, posesKind, showLine, drawThrew,
                   feedVars, emaVars, stableVars, detectorVars, bridgeVars, wsVars>>

toggleLine ==
    /\ showLine' = ~showLine
    /\ UNCHANGED <<now, calls, poseFSM, fsmReturn, returnLog, lastDetected, fsmBefore,
                   poses, lastFramePoses, lastResults, lastPrevious, matchLog,
                   lastReordered, frameCount, personStates, lastLockedPoseByPerson,
                   animVars, bundleVars, posesKind, showTracking, drawThrew,
                   feedVars, emaVars, stableVars, detectorVars, bridgeVars, wsVars>>

Init == InitSketch

Next ==
    \/ \E results \in ListsUpTo(FramePool, MaxPeople) : GotPoses(results)
    \/ \E d \in DrawDeltas : draw(d)

Spec == Init /\ [][Next]_vars

----------------------------------------------------------------------------
(* The pipeline with people who hold or change between two poses that have *)
(* a bundle.                                                               *)

ShowScenes ==
    {<<ArmsUpBody>>, <<ArmsOutBody>>, <<ArmsUpBody, ArmsOutBody>>,
     <<ArmsUpBody, ArmsUpBody>>}
ShowDeltas == {400, 1250}

InitShow == InitSketch

NextShow ==
    \/ \E results \in ShowScenes : GotPoses(results)
    \/ \E d \in ShowDeltas : draw(d)

SpecShow == InitShow /\ [][NextShow]_vars

----------------------------------------------------------------------------
(* The pipeline with one or two people in the frame, the second arriving   *)
(* or leaving and each holding or changing their pose: draw makes the      *)
(* fsmUpdate calls of all its slots, then their updateStickerAnim calls.   *)

SlotScenes ==
    {<<ArmsUpBody>>, <<StandingBody>>, <<ArmsUpBody, ArmsOutBody>>,
     <<StandingBody, ArmsUpBody>>}
SlotDeltas == {400, 1250}

InitSlots == InitSketch

NextSlots ==
    \/ \E results \in SlotScenes : GotPoses(results)
    \/ \E d \in SlotDeltas : draw(d)

SpecSlots == InitSlots /\ [][NextSlots]_vars

----------------------------------------------------------------------------
(* The pipeline with the detector callbacks counted: any number of         *)
(* callbacks up to MaxDeliveries between two frame ticks, none included.   *)

MaxDeliveries == 2
FeedScenes ==
    {<< >>, <<ArmsUpBody>>, <<StandingBody, ArmsUpBody>>,
     <<ArmsUpBody, StandingBody>>}
FeedDeltas == {400}

InitFeed == InitSketch

Deliver(results) ==
    /\ delivered < MaxDeliveries
    /\ delivered' = delivered + 1
    /\ gotPoses(results)
    /\ recordMatch(results)
    /\ UNCHANGED <<now, calls, poseFSM, fsmReturn, returnLog, lastDetected, fsmBefore,
                   frameCount, personStates, lastLockedPoseByPerson,
                   animVars, bundleVars, uiVars, consumedAfter, emaVars, stableVars, detectorVars, bridgeVars, wsVars>>

NextFeed ==
    \/ \E results \in FeedScenes : Deliver(results)
    \/ \E d \in FeedDeltas : draw(d)

SpecFeed == InitFeed /\ [][NextFeed]_vars

----------------------------------------------------------------------------
(* The pipeline with a detector that also delivers nothing (null,          *)
(* undefined, an empty list), a skeleton without keypoints or one whose    *)
(* keypoints end early, and a user who switches the tracking and line      *)
(* layers.                                                                 *)

EmptySkeleton == << >>

(* A skeleton whose keypoints array ends after the left elbow (index 7):   *)
(* the connection loop reaches [5,6] and [5,7] and throws at [5,11].       *)
CutOffBody ==
    [name \in {"nose", "left_shoulder", "right_shoulder", "left_elbow"} |->
        ArmsUpBody[name]]

FaultScenes ==
    {<< >>, <<EmptySkeleton>>, <<ArmsUpBody>>, <<ArmsUpBody, EmptySkeleton>>,
     <<EmptySkeleton, ArmsUpBody>>, <<CutOffBody>>}

FaultDeltas == {400}

InitFault == InitSketch

NextFault ==
    \/ \E results \in FaultScenes : GotPoses(results)
    \/ \E results \in {NULL, UNDEFINED} : GotNoPoses(results)
    \/ toggleTracking
    \/ toggleLine
    \/ \E d \in FaultDeltas : draw(d)

SpecFault == InitFault /\ [][NextFault]_vars

----------------------------------------------------------------------------
(* The pipeline with its smoothing store: one person, the outline and      *)
(* tracking layers switched by the user.                                   *)

LayerScenes == {<<StandingBody>>, <<ArmsUpBody>>}
LayerDeltas == {400}

InitLayers == InitSketch

NextLayers ==
    \/ \E results \in LayerScenes : GotPoses(results)
    \/ toggleTracking
    \/ toggleLine
    \/ \E d \in LayerDeltas : draw(d)

SpecLayers == InitLayers /\ [][NextLayers]_vars

----------------------------------------------------------------------------
(* The earlier sketch kept in osc-bridge/index.js: gotPoses stores the     *)
(* detector's skeletons as they come, and draw() resizes the per-person    *)
(* arrays, renders the tracking layer of every skeleton (smoothing its     *)
(* keypoints) around analyzeState, debounces every slot with               *)
(* processPersonStateChange and draws the stickers.  One person at most is *)
(* in the frame, standing, with open arms or with the hands on the head.   *)

MaxStableFrames == 13
MaxSmoothDepth == 3

HandsOnHeadBody ==
    Body(Kp(275, 90, 90), Kp(290, 20, 90), Kp(365, 90, 90), Kp(350, 20, 90),
         Kp(300, 450, 90), Kp(340, 450, 90))

StableScenes == {<< >>, <<StandingBody>>, <<ArmsOutBody>>, <<HandsOnHeadBody>>}

(* Math.sqrt(wristSq) > Math.sqrt(elbowSq) + 20 on two sums of squares of  *)
(* whole numbers: wristSq - elbowSq - 400 > 40 * sqrt(elbowSq), compared   *)
(* in whole numbers with the difference split at 40.  The two sides are    *)
(* equal only when both roots are whole numbers, and otherwise differ by   *)
(* far more than the rounding of the roots.                                *)
fartherBy20(wristSq, elbowSq) ==
    LET diff == wristSq - elbowSq - 400
        q == diff \div 40
        r == diff % 40
    IN  /\ diff > 0
        /\ \/ q * q > elbowSq
           \/ 80 * q * r + r * r > 1600 * (elbowSq - q * q)

SqDist(a, b) == (a.x - b.x) * (a.x - b.x) + (a.y - b.y) * (a.y - b.y)

(* analyzeState(pose, personNumber) of the sketch *)
LegacyAnalyzeState(pose) ==
    IF \E name \in {"left_wrist", "right_wrist", "left_elbow", "right_elbow",
                    "left_shoulder", "right_shoulder", "nose"} : ~Has(pose, name)
    THEN "Neutral"
    ELSE LET leftWrist == pose["left_wrist"]
             rightWrist == pose["right_wrist"]
             leftElbow == pose["left_elbow"]
             rightElbow == pose["right_elbow"]
             leftShoulder == pose["left_shoulder"]
             rightShoulder == pose["right_shoulder"]
             nose == pose["nose"]
             handsAboveHead == leftWrist.y < nose.y - 20 /\ rightWrist.y < nose.y - 20
             handsCloseTogether == Abs(leftWrist.x - rightWrist.x) < 100
             leftArmExtended == fartherBy20(SqDist(leftWrist, leftShoulder),
                                            SqDist(leftElbow, leftShoulder))
             rightArmExtended == fartherBy20(SqDist(rightWrist, rightShoulder),
                                             SqDist(rightElbow, rightShoulder))
             leftArmSpread == leftWrist.x < leftShoulder.x - 30
             rightArmSpread == rightWrist.x > rightShoulder.x + 30
             leftArmHorizontal == Abs(leftElbow.y - leftWrist.y) < 40
             rightArmHorizontal == Abs(rightElbow.y - rightWrist.y) < 40
         IN  IF leftWrist.c < 30 \/ rightWrist.c < 30 \/ nose.c < 30
             THEN "Neutral"
             ELSE IF handsAboveHead /\ handsCloseTogether THEN "Prime"
             ELSE IF /\ leftArmExtended /\ rightArmExtended
                     /\ leftArmSpread /\ rightArmSpread
                     /\ leftArmHorizontal /\ rightArmHorizontal
             THEN "Jesus"
             ELSE "Neutral"

(* The smoothed coordinates are exact fractions, whose denominators grow   *)
(* by a factor of 5 with every frame that smooths a keypoint that has      *)
(* moved: frames are drawn while they stay within 5^MaxSmoothDepth.        *)
RECURSIVE PowerOf5(_)
PowerOf5(k) == IF k = 0 THEN 1 ELSE 5 * PowerOf5(k - 1)

SmoothDepthWithin(store, depth) ==
    \A pid \in DOMAIN store :
        \A key \in DOMAIN store[pid].points :
            /\ store[pid].points[key].x.d <= PowerOf5(depth)
            /\ store[pid].points[key].y.d <= PowerOf5(depth)

(* The sketch as loaded: no poses yet, the tracking layer shown; it has no *)
(* relay socket.                                                           *)
InitStable ==
    /\ now = 0
    /\ calls = 0
    /\ poseFSM = << >>
    /\ fsmReturn = << >>
    /\ returnLog = << >>
    /\ lastDetected = << >>
    /\ fsmBefore = << >>
    /\ poses = << >>
    /\ lastFramePoses = << >>
    /\ lastResults = << >>
    /\ lastPrevious = << >>
    /\ frameCount = 0
    /\ personStates = << >>
    /\ lastLockedPoseByPerson = << >>
    /\ matchLog = << >>
    /\ lastReordered = << >>
    /\ stickerAnim = << >>
    /\ animInput = << >>
    /\ lastBundleKey = << >>
    /\ lastSentAt = 0
    /\ clockLead = 0
    /\ sentLog = << >>
    /\ bundleCalls = << >>
    /\ posesKind = ARRAY
    /\ showTracking = TRUE
    /\ showLine = TRUE
    /\ drawThrew = FALSE
    /\ delivered = 0
    /\ consumedAfter = 0
    /\ poseDetector = [lastDetection |-> 0, lastPose |-> NEUTRAL,
                       currentPose |-> NEUTRAL, poseStartTime |-> 0,
                       poseHistory |-> << >>]
    /\ detectRun = << >>
    /\ bridgeMsg = << >>
    /\ bridgeOsc = << >>
    /\ bridgeReply = << >>
    /\ wsQueue = << >>
    /\ wsBackoffMs = 500
    /\ wsWire = << >>
    /\ wsPassed = 0
    /\ wsQueuedLog = << >>
    /\ personStableStates = << >>
    /\ personStableCounters = << >>
    /\ personOverlayImages = << >>
    /\ stableRun = << >>
    /\ smoothStore = << >>
    /\ emaInput = << >>
    /\ emaCounts = << >>
    /\ smoothPos = [n |-> 4, d |-> 5]
    /\ smoothScale = [n |-> 17, d |-> 20]
    /\ oscWS = NoSocket
    /\ wsTimers = 0
    /\ wsErrors = 0

(* gotPoses(results) of the sketch: "poses = results" *)
LegacyGotPoses(results) ==
    /\ poses' = results
    /\ UNCHANGED <<now, calls, poseFSM, fsmReturn, returnLog, lastDetected, fsmBefore,
                   lastFramePoses, lastResults, lastPrevious, matchLog,
                   lastReordered, frameCount, personStates, lastLockedPoseByPerson,
                   animVars, bundleVars, posesKind, uiVars, feedVars, emaVars,
                   stableVars, detectorVars, bridgeVars, wsVars>>

(* toggleTracking() of the sketch *)
LegacyToggleTracking ==
    /\ showTracking' = ~showTracking
    /\ UNCHANGED <<now, calls, poseFSM, fsmReturn, returnLog, lastDetected, fsmBefore,
                   poses, lastFramePoses, lastResults, lastPrevious, matchLog,
                   lastReordered, frameCount, personStates, lastLockedPoseByPerson,
                   animVars, bundleVars, posesKind, showLine, drawThrew,
                   feedVars, emaVars, stableVars, detectorVars, bridgeVars, wsVars>>

(* draw() of the sketch: resizeStateArrays; for every pose the connection  *)
(* loop of the tracking layer, analyzeState into personStates and the      *)
(* keypoint loop; processPersonStateChange for every slot; and             *)
(* drawPersonSticker for every slot with the image the debounce left.  A   *)
(* TypeError in the connection loop ends the frame there.  stableRun       *)
(* counts, for every slot, the consecutive frames that detected its state. *)
LegacyDraw ==
    /\ frameCount < MaxStableFrames
    /\ frameCount' = frameCount + 1
    /\ LET thrower == firstThrow(poses, showTracking)
           n == IF thrower = 0 THEN Len(poses) ELSE thrower - 1
           sized == LegacyResizeStateArrays([states |-> personStates,
                                             stable |-> personStableStates,
                                             counters |-> personStableCounters,
                                             images |-> personOverlayImages],
                                            Len(poses))
           detected == [i \in 1..Len(poses) |->
                           IF i <= n THEN LegacyAnalyzeState(poses[i])
                           ELSE sized.states[i]]
           analyzed == [sized EXCEPT !.states = detected]
           st == IF thrower = 0 THEN processAll(analyzed, 1) ELSE analyzed
       IN  /\ drawThrew' = (thrower # 0)
           /\ personStates' = st.states
           /\ personStableStates' = st.stable
           /\ personStableCounters' = st.counters
           /\ personOverlayImages' = st.images
           /\ stableRun' = [i \in 1..Len(poses) |->
                               IF i > n
                               THEN IF i <= Len(stableRun) THEN stableRun[i]
                                    ELSE [state |-> detected[i], n |-> 0]
                               ELSE IF i <= Len(stableRun)
                                       /\ stableRun[i].state = detected[i]
                               THEN [state |-> detected[i], n |-> stableRun[i].n + 1]
                               ELSE [state |-> detected[i], n |-> 1]]
    /\ smoothStore' = frameStore(smoothStore, poses, FALSE, showTracking,
                                 personOverlayImages', drawThrew', smoothPos,
                                 smoothScale)
    /\ SmoothDepthWithin(smoothStore', MaxSmoothDepth)
    /\ emaCounts' = frameCounts(poses, FALSE, showTracking,
                                personOverlayImages', drawThrew')
    /\ UNCHANGED <<now, calls, poseFSM, fsmReturn, returnLog, lastDetected, fsmBefore,
                   poses, lastFramePoses, lastResults, lastPrevious, matchLog,
                   lastReordered, lastLockedPoseByPerson,
                   animVars, bundleVars, posesKind, showTracking, showLine,
                   feedVars, emaInput, smoothPos, smoothScale,
                   detectorVars, bridgeVars, wsVars>>

NextStable ==
    \/ \E results \in StableScenes : LegacyGotPoses(results)
    \/ LegacyDraw
    \/ LegacyToggleTracking

SpecStable == InitStable /\ [][NextStable]_vars

----------------------------------------------------------------------------
(* analyzeState applied to one skeleton: a body of the pools with any      *)
(* confidence below, at or above the threshold on nose, shoulders and      *)
(* wrists.                                                                 *)

RequiredJoints ==
    <<"nose", "left_shoulder", "right_shoulder", "left_wrist", "right_wrist">>

ClassifyConfs == {20, 30, 90}

ClassifyPool ==
    {[name \in DOMAIN body |->
         IF \E k \in 1..Len(RequiredJoints) : RequiredJoints[k] = name
         THEN [body[name] EXCEPT
                 !.c = conf[CHOOSE k \in 1..Len(RequiredJoints) : RequiredJoints[k] = name]]
         ELSE body[name]] :
       body \in {StandingBody, ArmsUpBody, ArmsOutBody},
       conf \in [1..Len(RequiredJoints) -> ClassifyConfs]}

(* Arm and leg positions around the default torso: each wrist up, raised   *)
(* and spread, level, down or at the hip, each elbow at one of five        *)
(* places, the ankles together or apart; the right side mirrors the left   *)
(* at x = 320.                                                             *)
Mirror(k) == Kp(640 - k.x, k.y, k.c)

LeftWrists ==
    {Kp(270, 20, 90), Kp(160, 60, 90), Kp(160, 120, 90), Kp(160, 160, 90),
     Kp(265, 300, 90), Kp(300, 290, 90)}

LeftElbows ==
    {Kp(275, 90, 90), Kp(220, 110, 90), Kp(220, 160, 90), Kp(270, 230, 90),
     Kp(250, 260, 90)}

LeftAnkles == {Kp(300, 450, 90), Kp(250, 450, 90)}

GeometryPool ==
    {Body(le, lw, Mirror(re), Mirror(rw), la, Mirror(la)) :
       le \in LeftElbows, lw \in LeftWrists, re \in LeftElbows, rw \in LeftWrists,
       la \in LeftAnkles}

(* Skeletons whose arm is exactly 1.6 times the forearm on both sides, so   *)
(* that the roundings of the doubles decide "extended".                    *)
TiedArmBody(leftElbow, leftWrist) ==
    [Body(leftElbow, leftWrist, Mirror(leftElbow), Mirror(leftWrist),
          Kp(240, 440, 90), Kp(400, 440, 90))
       EXCEPT !.left_hip = Kp(290, 300, 90), !.right_hip = Kp(350, 300, 90)]

TiedArmPool ==
    {TiedArmBody(Kp(259, 118, 90), Kp(224, 48, 90)),
     TiedArmBody(Kp(241, 82, 90), Kp(176, -48, 90))}

InitClassify ==
    /\ now = 0
    /\ calls = 0
    /\ poseFSM = << >>
    /\ fsmReturn = << >>
    /\ returnLog = << >>
    /\ lastDetected = << >>
    /\ fsmBefore = << >>
    /\ poses \in {<<pose>> : pose \in ClassifyPool \cup GeometryPool \cup TiedArmPool}
    /\ lastFramePoses = poses
    /\ lastResults = << >>
    /\ lastPrevious = << >>
    /\ frameCount = 0
    /\ personStates = << >>
    /\ lastLockedPoseByPerson = << >>
    /\ matchLog = << >>
    /\ lastReordered = << >>
    /\ stickerAnim = << >>
    /\ animInput = << >>
    /\ lastBundleKey = << >>
    /\ lastSentAt = 0
    /\ clockLead = 0
    /\ sentLog = << >>
    /\ bundleCalls = << >>
    /\ posesKind = ARRAY
    /\ showTracking = FALSE
    /\ showLine = TRUE
    /\ drawThrew = FALSE
    /\ delivered = 0
    /\ consumedAfter = 0
    /\ poseDetector = [lastDetection |-> 0, lastPose |-> NEUTRAL,
                       currentPose |-> NEUTRAL, poseStartTime |-> 0,
                       poseHistory |-> << >>]
    /\ detectRun = << >>
    /\ bridgeMsg = << >>
    /\ bridgeOsc = << >>
    /\ bridgeReply = << >>
    /\ oscWS = [id |-> 1, readyState |-> 0]
    /\ wsQueue = << >>
    /\ wsBackoffMs = 500
    /\ wsTimers = 0
    /\ wsWire = << >>
    /\ wsPassed = 0
    /\ wsQueuedLog = << >>
    /\ wsErrors = 0
    /\ personStableStates = << >>
    /\ personStableCounters = << >>
    /\ personOverlayImages = << >>
    /\ stableRun = << >>
    /\ smoothStore = << >>
    /\ emaInput = << >>
    /\ emaCounts = << >>
    /\ smoothPos = [n |-> 4, d |-> 5]
    /\ smoothScale = [n |-> 17, d |-> 20]

(* personStates[i] = analyzeState(pose, i + 1) for every pose *)
Classify ==
    /\ personStates = << >>
    /\ personStates' = [i \in 1..Len(poses) |-> analyzeState(poses[i])]
    /\ UNCHANGED <<now, calls, poseFSM, fsmReturn, returnLog, lastDetected, fsmBefore,
                   poses, lastFramePoses, lastResults, lastPrevious, matchLog,
                   lastReordered, frameCount, lastLockedPoseByPerson,
                   animVars, bundleVars, posesKind, uiVars, feedVars, emaVars, stableVars, detectorVars, bridgeVars, wsVars>>

NextClassify == Classify

SpecClassify == InitClassify /\ [][NextClassify]_vars

----------------------------------------------------------------------------
(* Properties of fsmUpdate (SpecFSM) *)

(* The entry of slot p before and after a step. *)
Before(p) == fsmEntry(poseFSM, p, now)
After(p) == poseFSM'[p]

(* In the returned values of every slot a non-null label is followed by    *)
(* null, never directly by another label.                                  *)
NullBetweenLabels ==
    \A p \in DOMAIN returnLog :
        \A i \in 1..(Len(returnLog[p]) - 1) :
            returnLog[p][i] # NULL => returnLog[p][i + 1] = NULL

(* C2: the locked pose never changes from one non-null label directly to   *)
(* a different non-null label: between two different returned labels null  *)
(* is returned; a locked pose changes only to null, on the step that       *)
(* enters cooldown; a pose is locked only from phase candidate; and        *)
(* cooldown is left only for idle.                                         *)
C2_RelabelOnlyThroughCooldown ==
    [][/\ NullBetweenLabels'
       /\ \A p \in DOMAIN poseFSM' :
          /\ (Before(p).lockedPose # NULL
                /\ After(p).lockedPose # Before(p).lockedPose)
             => /\ After(p).lockedPose = NULL
                /\ After(p).phase = "cooldown"
                /\ fsmReturn'[p] = NULL
          /\ (Before(p).lockedPose = NULL /\ After(p).lockedPose # NULL)
             => Before(p).phase = "candidate"
          /\ Before(p).phase = "cooldown"
             => After(p).phase \in {"cooldown", "idle"}]_vars

(* A slot that returned one label and, after a cooldown, locked and        *)
(* returned a different label.                                             *)
C2_Witness ==
    \E p \in DOMAIN poseFSM :
        /\ poseFSM[p].phase = "locked"
        /\ poseFSM[p].lockedSince >= poseFSM[p].cooldownUntil
        /\ \E i \in 1..Len(returnLog[p]) :
              /\ returnLog[p][i] # NULL
              /\ returnLog[p][i] # poseFSM[p].lockedPose

(* C3: a slot enters phase locked only from candidate, with the candidate   *)
(* label, detected in that frame, at least POSE_DWELL_MS after              *)
(* candidateSince; and while a slot stays candidate its label changes only  *)
(* together with a reset of candidateSince, so the locked label was the     *)
(* candidate label over the whole dwell interval.                           *)
C3_LockOnlyAfterDwell ==
    [][\A p \in DOMAIN poseFSM' :
          /\ (Before(p).phase # "locked" /\ After(p).phase = "locked")
             => /\ Before(p).phase = "candidate"
                /\ After(p).lockedPose = Before(p).candidatePose
                /\ lastDetected'[p] = Before(p).candidatePose
                /\ After(p).candidateSince = Before(p).candidateSince
                /\ After(p).lockedSince = now'
                /\ After(p).lockedSince - After(p).candidateSince >= POSE_DWELL_MS
          /\ (Before(p).phase = "candidate" /\ After(p).phase = "candidate"
                /\ After(p).candidatePose # Before(p).candidatePose)
             => After(p).candidateSince = now'
          /\ (Before(p).phase = "candidate" /\ After(p).phase = "candidate"
                /\ After(p).candidatePose = Before(p).candidatePose
                /\ now' - Before(p).candidateSince < POSE_DWELL_MS)
             => After(p).candidateSince = Before(p).candidateSince]_vars

(* A slot that has just locked exactly POSE_DWELL_MS after candidateSince. *)
C3_Witness ==
    \E p \in DOMAIN poseFSM :
        /\ poseFSM[p].phase = "locked"
        /\ poseFSM[p].lockedSince = now
        /\ poseFSM[p].lockedSince - poseFSM[p].candidateSince = POSE_DWELL_MS

(* C4: a locked slot keeps its locked pose on every call made before       *)
(* lockedSince + STICKER_MIN_SHOW_MS + GRACE_MS, whatever is detected.     *)
C4_MinShowHolds ==
    [][\A p \in DOMAIN poseFSM' :
          (Before(p).phase = "locked"
             /\ now' < Before(p).lockedSince + STICKER_MIN_SHOW_MS + GRACE_MS)
          => /\ After(p).phase = "locked"
             /\ After(p).lockedPose = Before(p).lockedPose
             /\ After(p).lockedSince = Before(p).lockedSince
             /\ fsmReturn'[p] = Before(p).lockedPose]_vars

(* A locked slot that saw a different detection after the minimum show    *)
(* time, one millisecond before the grace window ended.                   *)
C4_Witness ==
    \E p \in DOMAIN poseFSM :
        /\ poseFSM[p].phase = "locked"
        /\ lastDetected[p] # poseFSM[p].lockedPose
        /\ poseFSM[p].lastSeen
             = poseFSM[p].lockedSince + STICKER_MIN_SHOW_MS + GRACE_MS - 1

(* C5: the unlocking step sets cooldownUntil to the unlock time plus       *)
(* STICKER_COOLDOWN_MS, and no call made before cooldownUntil leaves the    *)
(* slot in phase candidate or locked.                                      *)
C5_CooldownBlocksCandidate ==
    [][\A p \in DOMAIN poseFSM' :
          /\ (Before(p).phase = "locked" /\ After(p).phase # "locked")
             => /\ After(p).phase = "cooldown"
                /\ After(p).cooldownUntil = now' + STICKER_COOLDOWN_MS
          /\ now' < After(p).cooldownUntil
             => After(p).phase \in {"cooldown", "idle"}
          /\ (Before(p).phase = "cooldown"
                /\ now' < Before(p).lastSeen + STICKER_COOLDOWN_MS
                /\ Before(p).cooldownUntil
                     = Before(p).lastSeen + STICKER_COOLDOWN_MS)
             => After(p).phase = "cooldown"]_vars

(* A slot in cooldown that was shown a pose one millisecond before         *)
(* cooldownUntil.                                                          *)
C5_Witness ==
    \E p \in DOMAIN poseFSM :
        /\ poseFSM[p].phase = "cooldown"
        /\ lastDetected[p] \in POSES
        /\ poseFSM[p].lastSeen = poseFSM[p].cooldownUntil - 1

(* C6: a locked slot whose previous frame still detected the locked label  *)
(* is not unlocked by one differing frame that comes less than GRACE_MS    *)
(* later.                                                                  *)
C6_SingleFrameNeverUnlocks ==
    [][\A p \in DOMAIN poseFSM :
          (poseFSM[p].phase = "locked"
             /\ lastDetected[p] = poseFSM[p].lockedPose
             /\ now' - poseFSM[p].lastSeen < GRACE_MS)
          => poseFSM'[p].phase = "locked"]_vars

(* C7: a candidate whose previous frame detected the candidate label stays *)
(* candidate, with the same label, on a frame without a detection (or with *)
(* neutral) that comes less than GRACE_MS later.                           *)
C7_ShortAbsenceKeepsCandidate ==
    [][\A p \in DOMAIN poseFSM :
          (poseFSM[p].phase = "candidate"
             /\ poseFSM[p].candidatePose \in POSES
             /\ lastDetected[p] = poseFSM[p].candidatePose
             /\ lastDetected'[p] \in {NULL, UNDEFINED, NEUTRAL}
             /\ now' - poseFSM[p].lastSeen < GRACE_MS)
          => /\ poseFSM'[p].phase = "candidate"
             /\ poseFSM'[p].candidatePose = poseFSM[p].candidatePose]_vars

(* C8: the value returned by fsmUpdate is the slot's lockedPose, and it is *)
(* non-null exactly when the slot's phase is locked.                       *)
C8_ReturnNonNullIffLocked ==
    \A p \in DOMAIN poseFSM :
        /\ fsmReturn[p] = poseFSM[p].lockedPose
        /\ (fsmReturn[p] # NULL) <=> (poseFSM[p].phase = "locked")

(* A slot that has unlocked: phase cooldown, returning null. *)
C8_Witness ==
    \E p \in DOMAIN poseFSM :
        /\ poseFSM[p].phase = "cooldown"
        /\ poseFSM[p].lastSeen = poseFSM[p].cooldownUntil - STICKER_COOLDOWN_MS
        /\ fsmReturn[p] = NULL

(* C9: from every state and at every clock value a frame with a missing    *)
(* detection (null or undefined) and a frame detecting neutral give the    *)
(* same next FSM state (and so the same returned locked pose).             *)
C9_MissingSameAsNeutral ==
    \A p \in FsmPids, d \in FsmDeltas, missing \in {NULL, UNDEFINED} :
        fsmUpdate(poseFSM, p, missing, NoInfo, now + d)
          = fsmUpdate(poseFSM, p, NEUTRAL, NoInfo, now + d)

----------------------------------------------------------------------------
(* Properties of the identity tracker (SpecMatch) *)

(* C10: the assignments made by matchPosesToPreviousFrame are one-to-one:  *)
(* no previous slot is assigned to two current skeletons, no current       *)
(* skeleton is assigned to two previous slots, and every assignment pairs  *)
(* a current skeleton of the call with a previous slot of the call.        *)
C10_MatchingOneToOne ==
    /\ \A i \in 1..Len(matchLog) :
          /\ matchLog[i][1] \in 1..Len(lastResults)
          /\ matchLog[i][2] \in 1..Len(lastPrevious)
    /\ \A i, j \in 1..Len(matchLog) :
          i # j => /\ matchLog[i][1] # matchLog[j][1]
                   /\ matchLog[i][2] # matchLog[j][2]

(* Two current skeletons both within the threshold of the only previous    *)
(* slot, one of them matched to it.                                        *)
C10_Witness ==
    /\ Len(lastResults) = 2
    /\ Len(lastPrevious) = 1
    /\ \A i \in 1..2 :
          ScoreBelow(calculatePoseSimilarity(lastResults[i], lastPrevious[1]),
                     MATCH_MAX_DIST)
    /\ Len(matchLog) = 1

(* The current skeletons that no previous slot was assigned to, the slots  *)
(* that were assigned, and the slot of reordered holding current skeleton  *)
(* i.                                                                      *)
MatchedCurrent == {matchLog[i][1] : i \in 1..Len(matchLog)}
MatchedSlots == {matchLog[i][2] : i \in 1..Len(matchLog)}
UnmatchedCurrent == (1..Len(lastResults)) \ MatchedCurrent
SlotOf(i) == CHOOSE s \in 1..Len(lastReordered) : lastReordered[s] = <<i>>

(* C11: every current skeleton matched to previous slot j is at index j of *)
(* the array returned by matchPosesToPreviousFrame (the new poses).        *)
C11_MatchedKeepSlotIndex ==
    \A i \in 1..Len(matchLog) :
        /\ matchLog[i][2] <= Len(poses)
        /\ poses[matchLog[i][2]] = lastResults[matchLog[i][1]]

(* C12: an unmatched current skeleton never receives the index of a slot   *)
(* that existed in the previous frame (whenever there was a previous       *)
(* frame to match against), and unmatched skeletons keep their order.      *)
C12_UnmatchedAppendedAfterPrevious ==
    (Len(lastPrevious) > 0 /\ Len(lastResults) > 0)
    => /\ \A u \in UnmatchedCurrent : SlotOf(u) > Len(lastPrevious)
       /\ \A u, v \in UnmatchedCurrent : u < v => SlotOf(u) < SlotOf(v)

(* C12 (amended): every current skeleton is put in exactly one slot; the   *)
(* unmatched ones take, in the order they were found, the lowest slots     *)
(* that hold no matched skeleton (a previous slot that found no match      *)
(* included) and so keep their relative order; and the returned array is   *)
(* the filled slots in slot order.                                         *)
C12_UnmatchedFillFreeSlots ==
    /\ \A i \in 1..Len(lastResults) :
          Cardinality({s \in 1..Len(lastReordered) : lastReordered[s] = <<i>>}) = 1
    /\ \A u \in UnmatchedCurrent : SlotOf(u) \notin MatchedSlots
    /\ \A u, v \in UnmatchedCurrent : u < v => SlotOf(u) < SlotOf(v)
    /\ \A u \in UnmatchedCurrent :
          \A s \in 1..(SlotOf(u) - 1) :
             s \notin MatchedSlots
             => \E v \in UnmatchedCurrent : v < u /\ SlotOf(v) = s
    /\ poses = FilterDefined([s \in 1..Len(lastReordered) |->
                                IF lastReordered[s] = << >> THEN << >>
                                ELSE <<lastResults[lastReordered[s][1]]>>])

(* An unmatched skeleton put in the slot of a previous person that found   *)
(* no match, below a slot that was matched.                                *)
C12_Witness ==
    \E u \in UnmatchedCurrent :
        /\ Len(lastPrevious) > 0
        /\ SlotOf(u) <= Len(lastPrevious)
        /\ \E j \in MatchedSlots : SlotOf(u) < j

(* Two tracked people: who[k] is the index in the current frame of the     *)
(* person who was in slot k.  Each is within the threshold of their own    *)
(* previous position and their left-right order is reversed.               *)
PersonX(pose) == pose["nose"].x

Within(current, previous) ==
    ScoreBelow(calculatePoseSimilarity(current, previous), MATCH_MAX_DIST)

SwappedWithin(who) ==
    /\ Len(lastPrevious) = 2
    /\ Len(lastResults) = 2
    /\ Within(lastResults[who[1]], lastPrevious[1])
    /\ Within(lastResults[who[2]], lastPrevious[2])
    /\ (PersonX(lastPrevious[1]) < PersonX(lastPrevious[2]))
         # (PersonX(lastResults[who[1]]) < PersonX(lastResults[who[2]]))
    /\ PersonX(lastPrevious[1]) # PersonX(lastPrevious[2])
    /\ PersonX(lastResults[1]) # PersonX(lastResults[2])

KeptSlots(who) == poses = <<lastResults[who[1]], lastResults[who[2]]>>

(* C13: two tracked people who swap left-right position within one frame,  *)
(* each within the threshold of their previous position, keep their slot   *)
(* indices, in whatever order the detector reports them.                   *)
C13_SwapKeepsSlots ==
    \A who \in {<<1, 2>>, <<2, 1>>} : SwappedWithin(who) => KeptSlots(who)

(* C13 (amended): they keep their slot indices when, in addition, the      *)
(* person of slot 0 ends strictly closer to slot 0's previous position     *)
(* than the other person does.                                             *)
C13_SwapKeepsSlotsWhenCloser ==
    \A who \in {<<1, 2>>, <<2, 1>>} :
        (SwappedWithin(who)
           /\ ScoreLess(calculatePoseSimilarity(lastResults[who[1]], lastPrevious[1]),
                        calculatePoseSimilarity(lastResults[who[2]], lastPrevious[1])))
        => KeptSlots(who)

(* Such a swap, reported by the detector with the person of slot 1 first,  *)
(* after which both people are at their previous slot index.               *)
C13_Witness ==
    /\ SwappedWithin(<<2, 1>>)
    /\ ScoreLess(calculatePoseSimilarity(lastResults[2], lastPrevious[1]),
                 calculatePoseSimilarity(lastResults[1], lastPrevious[1]))
    /\ KeptSlots(<<2, 1>>)

----------------------------------------------------------------------------
(* Properties of updateStickerAnim (SpecAnim) *)

(* The animation entry of slot p before and after a step, and whether the  *)
(* locked pose passed in the step is a pose (non-null, non-neutral).       *)
AnimBefore(p) == animEntry(stickerAnim, p)
AnimAfter(p) == stickerAnim'[p]
PoseArrives(p) == Truthy(animInput'[p]) /\ animInput'[p] # NEUTRAL

(* C15: in every animation state of every slot the scale is within the     *)
(* configured endpoints: S_IN_START <= scale <= 1.                         *)
C15_ScaleWithinEndpoints ==
    \A p \in DOMAIN stickerAnim :
        /\ RatLeq(S_IN_START, stickerAnim[p].scale)
        /\ RatLeq(stickerAnim[p].scale, One)

(* An exit started in the middle of an enter (from a scale below 1) and    *)
(* under way, the scale strictly between its two ends.                     *)
C15_Witness ==
    \E p \in DOMAIN stickerAnim :
        /\ stickerAnim[p].phase = "out"
        /\ RatLess(S_IN_START, stickerAnim[p].from)
        /\ RatLess(stickerAnim[p].from, S_OUT_END)
        /\ RatLess(stickerAnim[p].from, stickerAnim[p].scale)
        /\ RatLess(stickerAnim[p].scale, S_OUT_END)

(* C16: an update starts an enter (phase in, t0 the time of the update,    *)
(* from S_IN_START to 1 over IN_MS, scale S_IN_START) exactly when a       *)
(* non-null, non-neutral locked pose arrives while the slot is hidden, or  *)
(* exiting, or showing a different pose; an update with the same pose      *)
(* still locked moves an entering slot to steady with scale 1 as soon as   *)
(* IN_MS has elapsed since the start, and not before; and a steady slot    *)
(* stays steady at scale 1 while the same pose stays locked.               *)
C16_EnterStartsAndSettles ==
    [][\A p \in DOMAIN stickerAnim' :
          /\ (AnimAfter(p).phase = "in" /\ AnimAfter(p).t0 = now')
              <=> (PoseArrives(p)
                     /\ (\/ AnimBefore(p).phase \in {"hidden", "out"}
                         \/ AnimBefore(p).currentPose # animInput'[p]))
          /\ (AnimAfter(p).phase = "in" /\ AnimAfter(p).t0 = now')
              => /\ AnimAfter(p).from = S_IN_START
                 /\ AnimAfter(p).to = One
                 /\ AnimAfter(p).dur = IN_MS
                 /\ AnimAfter(p).scale = S_IN_START
                 /\ AnimAfter(p).currentPose = animInput'[p]
          /\ (AnimBefore(p).phase = "in"
                 /\ animInput'[p] = AnimBefore(p).currentPose)
              => IF now' - AnimBefore(p).t0 >= IN_MS
                 THEN AnimAfter(p).phase = "steady" /\ AnimAfter(p).scale = One
                 ELSE /\ AnimAfter(p).phase = "in"
                      /\ AnimAfter(p).t0 = AnimBefore(p).t0
                      /\ RatLess(AnimAfter(p).scale, One)
          /\ (AnimBefore(p).phase = "steady"
                 /\ animInput'[p] = AnimBefore(p).currentPose)
              => AnimAfter(p).phase = "steady" /\ AnimAfter(p).scale = One]_vars

(* A slot that became steady, with scale 1, in the update made exactly     *)
(* IN_MS after the start of its enter.                                     *)
C16_Witness ==
    \E p \in DOMAIN stickerAnim :
        /\ stickerAnim[p].phase = "steady"
        /\ stickerAnim[p].scale = One
        /\ now - stickerAnim[p].t0 = IN_MS
        /\ animInput[p] = stickerAnim[p].currentPose

(* C17: when the locked pose passed to an entering or steady slot is none  *)
(* (null or neutral), the update starts an exit from the current scale to  *)
(* S_OUT_END over OUT_MS; a slot becomes hidden only from phase out, on an *)
(* update without a pose made at least OUT_MS after the start of the exit; *)
(* and a hidden slot has neither a current image nor a current pose.       *)
C17_ExitStartsAndHides ==
    [][\A p \in DOMAIN stickerAnim' :
          /\ (AnimBefore(p).phase \in {"in", "steady"} /\ ~PoseArrives(p))
              => /\ AnimAfter(p).phase = "out"
                 /\ AnimAfter(p).t0 = now'
                 /\ AnimAfter(p).dur = OUT_MS
                 /\ AnimAfter(p).from = AnimBefore(p).scale
                 /\ AnimAfter(p).to = S_OUT_END
                 /\ AnimAfter(p).scale = AnimBefore(p).scale
          /\ (AnimBefore(p).phase # "hidden" /\ AnimAfter(p).phase = "hidden")
              => /\ AnimBefore(p).phase = "out"
                 /\ ~PoseArrives(p)
                 /\ now' - AnimBefore(p).t0 >= OUT_MS
          /\ AnimAfter(p).phase = "hidden"
              => /\ AnimAfter(p).currentImage = NULL
                 /\ AnimAfter(p).currentPose = NULL]_vars

(* A slot hidden by an exit that has just completed. *)
C17_Witness ==
    \E p \in DOMAIN stickerAnim :
        /\ stickerAnim[p].phase = "hidden"
        /\ stickerAnim[p].dur = OUT_MS
        /\ now - stickerAnim[p].t0 >= OUT_MS
        /\ stickerAnim[p].currentImage = NULL

----------------------------------------------------------------------------
(* Properties of maybeSendBundle (SpecBundle) *)

(* C19: no two sends of the same bundle key are less than                  *)
(* GLOBAL_DEBOUNCE_MS apart.                                               *)
C19_NoIdenticalWithinDebounce ==
    \A i, j \in 1..Len(sentLog) :
        (i < j /\ sentLog[i].key = sentLog[j].key)
        => sentLog[j].at - sentLog[i].at >= GLOBAL_DEBOUNCE_MS

(* The same bundle sent twice, another bundle in between, and the last     *)
(* call, made less than GLOBAL_DEBOUNCE_MS after the latest send, dropped. *)
C19_Witness ==
    /\ \E i, j \in 1..Len(sentLog) : i < j /\ sentLog[i].key = sentLog[j].key
    /\ bundleCalls # << >>
    /\ ~bundleCalls[Len(bundleCalls)].sent
    /\ performanceNow(now) - lastSentAt < GLOBAL_DEBOUNCE_MS

----------------------------------------------------------------------------
(* Properties of the per-frame pipeline (Spec) *)

(* C1: no slot's locked pose is ever 'neutral': it is null or one of the   *)
(* six pose labels.                                                        *)
C1_LockedPoseNeverNeutral ==
    \A pid \in DOMAIN poseFSM : poseFSM[pid].lockedPose \in POSES \cup {NULL}

(* C14: after every frame no slot index at or beyond the number of         *)
(* skeletons of that frame holds lock or animation state.                  *)
C14_SlotStateWithinPoseCount ==
    \A pid \in DOMAIN poseFSM \cup DOMAIN stickerAnim : pid < Len(personStates)

----------------------------------------------------------------------------
(* Properties of the show-control relay in the pipeline (SpecShow) *)

(* Slot pid's locked pose changed in the frame to a pose that has a        *)
(* bundle.                                                                 *)
LockChanged(pid) ==
    /\ poseFSM'[pid].lockedPose \in DOMAIN POSE_TO_BUNDLE
    /\ poseFSM'[pid].lockedPose # lastLockedEntry(lastLockedPoseByPerson, pid)

CallKey(k) == keyOfBundle(POSE_TO_BUNDLE[bundleCalls'[k].pose])

(* The bundles sent before the k-th maybeSendBundle call of the frame: the *)
(* earlier frames' and those of the calls before it in the frame.          *)
PriorLog(k) ==
    SubSeq(sentLog', 1,
           Len(sentLog) + Cardinality({i \in 1..(k - 1) : bundleCalls'[i].sent}))

LastAt(log) == IF log = << >> THEN 0 ELSE log[Len(log)].at
LastKey(log) == IF log = << >> THEN << >> ELSE log[Len(log)].key

(* C18: in every frame, every change of a slot's locked pose to a pose     *)
(* that has a bundle sends that bundle, unless the bundle sent last is     *)
(* identical and was sent less than GLOBAL_DEBOUNCE_MS earlier.            *)
C18_LockChangeSendsBundle ==
    [][frameCount' # frameCount =>
         \A pid \in 0..(Len(poses) - 1) :
            LockChanged(pid) =>
               \E k \in 1..Len(bundleCalls') :
                  /\ bundleCalls'[k].pid = pid
                  /\ \/ bundleCalls'[k].sent
                     \/ /\ PriorLog(k) # << >>
                        /\ LastKey(PriorLog(k)) = CallKey(k)
                        /\ performanceNow(now') - LastAt(PriorLog(k))
                             < GLOBAL_DEBOUNCE_MS]_vars

(* C18 (amended): in every frame maybeSendBundle is called, in slot order, *)
(* exactly for the slots whose locked pose changed to a pose that has a    *)
(* bundle; a call sends its bundle exactly when no bundle at all was sent  *)
(* less than GLOBAL_DEBOUNCE_MS earlier on performance.now() (the last     *)
(* send time starting at 0) and the bundle differs from the one sent last, *)
(* however long ago; and the bundles sent are those of the sending calls.  *)
C18_SentUnlessDebouncedOrRepeated ==
    [][frameCount' # frameCount =>
         /\ \A pid \in 0..(Len(poses) - 1) :
               LockChanged(pid) <=>
                  \E k \in 1..Len(bundleCalls') :
                     /\ bundleCalls'[k].pid = pid
                     /\ bundleCalls'[k].pose = poseFSM'[pid].lockedPose
         /\ \A k \in 1..Len(bundleCalls') :
               /\ bundleCalls'[k].pid \in 0..(Len(poses) - 1)
               /\ \A i \in 1..(k - 1) : bundleCalls'[i].pid < bundleCalls'[k].pid
               /\ bundleCalls'[k].sent
                    <=> /\ performanceNow(now') - LastAt(PriorLog(k))
                             >= GLOBAL_DEBOUNCE_MS
                        /\ CallKey(k) # LastKey(PriorLog(k))
               /\ bundleCalls'[k].sent
                    => sentLog'[Len(PriorLog(k)) + 1]
                         = [key |-> CallKey(k), at |-> performanceNow(now')]
         /\ SubSeq(sentLog', 1, Len(sentLog)) = sentLog
         /\ Len(sentLog') = Len(PriorLog(Len(bundleCalls') + 1))]_vars

(* A frame in which two slots locked different poses: the bundle of the    *)
(* first was sent, stamped with performance.now() where that is ahead of   *)
(* millis(), the bundle of the second was not.                             *)
C18_Witness ==
    /\ clockLead > 0
    /\ Len(bundleCalls) = 2
    /\ bundleCalls[1].pose # bundleCalls[2].pose
    /\ bundleCalls[1].sent
    /\ ~bundleCalls[2].sent
    /\ sentLog # << >>
    /\ sentLog[Len(sentLog)].at = performanceNow(now)

----------------------------------------------------------------------------
(* Properties of analyzeState (SpecClassify) *)

(* C20: a skeleton with the confidence of the nose, a shoulder or a wrist  *)
(* below 0.3 is classified neutral.                                        *)
C20_LowConfidenceIsNeutral ==
    \A i \in 1..Len(personStates) :
        (\E k \in 1..Len(RequiredJoints) : poses[i][RequiredJoints[k]].c < ANALYZE_CONF)
        => personStates[i] = NEUTRAL

(* The rules in the documented priority order. *)
RuleOrder == <<"star", "arms_up", "side_arms", "zigzag", "arms_out", "rounded">>

(* The skeleton satisfies rule k: it has the critical keypoints with the   *)
(* confidence every rule requires, and its geometry meets the rule's       *)
(* condition.                                                              *)
Satisfies(pose, k) ==
    /\ ~missingCritical(pose)
    /\ ~lowConfidence(pose)
    /\ poseRules(pose)[RuleOrder[k]]

Satisfied(pose) == {k \in 1..Len(RuleOrder) : Satisfies(pose, k)}

(* C21: a skeleton that satisfies two or more rules gets the label of the  *)
(* rule earliest in the order star, arms_up, side_arms, zigzag, arms_out,  *)
(* rounded, and neutral is returned only when no rule is satisfied.        *)
C21_EarliestRuleWins ==
    \A i \in 1..Len(personStates) :
        /\ Cardinality(Satisfied(poses[i])) >= 2
              => \E k \in Satisfied(poses[i]) :
                    /\ personStates[i] = RuleOrder[k]
                    /\ \A j \in Satisfied(poses[i]) : k <= j
        /\ personStates[i] = NEUTRAL => Satisfied(poses[i]) = {}

(* A skeleton that meets star, arms_up and side_arms at once has been      *)
(* classified.                                                             *)
C21_Witness ==
    /\ Len(personStates) = 1
    /\ {1, 2, 3} \subseteq Satisfied(poses[1])
    /\ personStates[1] = "star"

----------------------------------------------------------------------------
(* Properties of the pipeline on missing input (SpecFault) *)

(* C22: a draw tick after a callback that delivered null, undefined or an  *)
(* empty list completes and sees zero people.                              *)
C22_NoResultDrawCompletes ==
    [][(frameCount' # frameCount /\ (posesKind # ARRAY \/ Len(poses) = 0))
         => (~drawThrew' /\ Len(personStates') = 0)]_vars

(* C23: a draw tick with a skeleton without keypoints completes, with any  *)
(* setting of the toggles, and the skeleton is classified neutral.         *)
C23_EmptySkeletonIsNeutral ==
    [][(frameCount' # frameCount /\ posesKind = ARRAY)
         => \A i \in 1..Len(poses) :
               poses[i] = EmptySkeleton
                 => (~drawThrew' /\ personStates'[i] = NEUTRAL)]_vars

----------------------------------------------------------------------------
(* Properties of the pipeline under stalls and bursts of the detector      *)
(* (SpecFeed)                                                              *)

(* C24: a frame tick that no detector callback preceded since the previous *)
(* tick leaves the FSM phase, the locked pose and the animation phase of   *)
(* every slot unchanged.                                                   *)
C24_StallHoldsSlots ==
    [][(frameCount' # frameCount /\ frameCount > 0 /\ delivered = 0)
         => /\ DOMAIN poseFSM' = DOMAIN poseFSM
            /\ DOMAIN stickerAnim' = DOMAIN stickerAnim
            /\ \A pid \in DOMAIN poseFSM :
                  /\ poseFSM'[pid].phase = poseFSM[pid].phase
                  /\ poseFSM'[pid].lockedPose = poseFSM[pid].lockedPose
            /\ \A pid \in DOMAIN stickerAnim :
                  stickerAnim'[pid].phase = stickerAnim[pid].phase]_vars

(* a lists the elements of b, each once, in some order. *)
IsPermutation(a, b) ==
    /\ Len(a) = Len(b)
    /\ \E f \in [1..Len(a) -> 1..Len(a)] :
          /\ \A i, j \in 1..Len(a) : f[i] = f[j] => i = j
          /\ \A i \in 1..Len(a) : a[i] = b[f[i]]

(* C25: every frame tick classifies exactly the skeletons of the list      *)
(* delivered last, one per slot, and hands one detection per skeleton of   *)
(* that list to the FSM; skeletons delivered before it reach neither.      *)
C25_DrawConsumesLatest ==
    [][frameCount' # frameCount =>
         /\ IsPermutation(poses, lastResults)
         /\ Len(personStates') = Len(lastResults)
         /\ \A i \in 1..Len(poses) :
               /\ personStates'[i] = analyzeState(poses[i])
               /\ lastDetected'[i - 1] = personStates'[i]
         /\ \A pid \in DOMAIN poseFSM' :
               pid >= Len(poses) => /\ pid \in DOMAIN poseFSM
                                    /\ poseFSM'[pid] = poseFSM[pid]]_vars

(* A tick that two callbacks preceded, the earlier with more skeletons     *)
(* than the later one: only the later list was classified.                 *)
C25_Witness ==
    /\ frameCount > 0
    /\ delivered = 0
    /\ consumedAfter >= 2
    /\ lastResults # << >>
    /\ Len(lastPrevious) > Len(lastResults)
    /\ Len(personStates) = Len(lastResults)

----------------------------------------------------------------------------
(* Properties of emaPoint and emaScalar (SpecEma) *)

RatAbs(a) == IF a.n < 0 THEN [n |-> -a.n, d |-> a.d] ELSE a

RECURSIVE RatPow(_, _)
RatPow(a, k) == IF k = 0 THEN One ELSE RatMul(a, RatPow(a, k - 1))

(* The smoothing factor of the last call, the distance of the smoothed     *)
(* value from the raw value fed (on x for a point) before the run of       *)
(* identical calls and now, and the same on y.                             *)
EmaAlpha == IF emaInput.fn = "emaPoint" THEN smoothPos ELSE smoothScale

EmaNow ==
    IF emaInput.fn = "emaPoint"
    THEN smoothStore[emaInput.pIdx].points[emaInput.name]
    ELSE smoothStore[emaInput.pIdx].scalars[emaInput.name]

EmaGap(value) ==
    IF emaInput.fn = "emaPoint"
    THEN <<RatAbs(RatSub(value.x, emaInput.raw.x)), RatAbs(RatSub(value.y, emaInput.raw.y))>>
    ELSE <<RatAbs(RatSub(value, emaInput.raw))>>

(* C26: after the same raw value was fed N times in a row, the distance of *)
(* the smoothed value from it is alpha^N times the distance before the     *)
(* first feed - with alpha < 1 it never increases and falls below any      *)
(* epsilon - and with alpha = 0 the smoothed value is the raw value after  *)
(* one update.                                                             *)
C26_EmaConverges ==
    emaInput # << >> =>
        /\ RatLeq(Zero, EmaAlpha) /\ RatLess(EmaAlpha, One)
        /\ \A i \in DOMAIN EmaGap(EmaNow) :
              /\ EmaGap(EmaNow)[i]
                   = RatMul(RatPow(EmaAlpha, emaInput.run), EmaGap(emaInput.start)[i])
              /\ RatLeq(EmaGap(EmaNow)[i], EmaGap(emaInput.start)[i])
        /\ EmaAlpha = Zero => EmaNow = emaInput.raw

(* The same raw value was fed three times in a row to a smoothed value     *)
(* that was away from it, and the distance fell below two thirds of what   *)
(* it was.                                                                 *)
C26_Witness ==
    /\ emaInput # << >>
    /\ emaInput.run >= 3
    /\ EmaAlpha # Zero
    /\ EmaGap(emaInput.start)[1] # Zero
    /\ RatLess(EmaGap(EmaNow)[1], RatMul(Rat(2, 3), EmaGap(emaInput.start)[1]))

----------------------------------------------------------------------------
(* Properties of the frame-count debounce (SpecStable) *)

(* C27: a person's stable state changes to a state only in a frame in      *)
(* which that state has been detected on STABLE_FRAMES consecutive frames. *)
C27_StableAfterConsecutiveFrames ==
    [][\A i \in 1..Len(personStableStates') :
          (i <= Len(personStableStates)
             /\ personStableStates'[i] # personStableStates[i])
            => /\ stableRun'[i].state = personStableStates'[i]
               /\ stableRun'[i].n >= STABLE_FRAMES]_vars

----------------------------------------------------------------------------
(* Properties of PoseDetector.detect (SpecDetector) *)

(* C28: detect changes currentPose to a pose only when that pose has been  *)
(* detected for at least stableTime.                                       *)
C28_ChangeAfterStableTime ==
    [][poseDetector'.currentPose # poseDetector.currentPose
         /\ poseDetector'.poseHistory # << >>
         => /\ detectRun'.pose = poseDetector'.currentPose
            /\ now' - detectRun'.since >= STABLE_TIME]_vars

----------------------------------------------------------------------------
(* Properties of the OSC bridge (SpecBridge) *)

IsOscMessage == bridgeMsg # << >> /\ bridgeMsg.kind = "object" /\ bridgeMsg.type = "osc"

BridgeActionList ==
    IF bridgeMsg.actions.isArray THEN bridgeMsg.actions.items ELSE << >>

IntegerAction(action) ==
    /\ action # JNull
    /\ "layer" \in DOMAIN action /\ "media" \in DOMAIN action
    /\ action.layer.t = "number" /\ action.layer.d = 1
    /\ action.media.t = "number" /\ action.media.d = 1

(* C29: for a message of type osc the bridge sends one OSC message per     *)
(* action whose layer and media are integers, in the order of the actions, *)
(* none for the other actions, and replies {type: sent, count} with the    *)
(* number of OSC messages sent.                                            *)
C29_OneOscPerIntegerAction ==
    IsOscMessage =>
        LET valid == SelectSeq(BridgeActionList, IntegerAction)
        IN  /\ Len(bridgeOsc) = Len(valid)
            /\ \A i \in 1..Len(valid) :
                  /\ bridgeOsc[i].address = <<"/md8key/ctrl_layer_media/", valid[i].layer.n>>
                  /\ bridgeOsc[i].args = <<[type |-> "i", value |-> valid[i].media.n]>>
            /\ bridgeReply = <<[type |-> "sent", count |-> Len(bridgeOsc)]>>

(* A message with three actions, the middle one without an integer layer:  *)
(* two OSC messages were sent and counted.                                 *)
C29_Witness ==
    /\ IsOscMessage
    /\ Len(BridgeActionList) = 3
    /\ IntegerAction(BridgeActionList[1])
    /\ ~IntegerAction(BridgeActionList[2])
    /\ IntegerAction(BridgeActionList[3])
    /\ BridgeActionList[1] # BridgeActionList[3]
    /\ Len(bridgeOsc) = 2
    /\ bridgeReply[1].count = 2

(* C30: a non-neutral label detected in every frame of a slot that starts  *)
(* idle with its cooldown elapsed is locked exactly once: the first frame   *)
(* makes the slot candidate for the label, the slot stays candidate with    *)
(* the same candidateSince until the first frame at least POSE_DWELL_MS     *)
(* after candidateSince, which locks it with lockedSince the time of that   *)
(* frame, and every later frame with the label leaves it locked with        *)
(* lockedSince unchanged.                                                   *)
C30_SteadyLabelLocksOnce ==
    [][\A p \in DOMAIN poseFSM' :
          (/\ After(p).lastSeen = now'
           /\ lastDetected'[p] \notin {NULL, NEUTRAL})
          => LET label == lastDetected'[p]
                 b == Before(p)
                 a == After(p)
             IN  /\ (b.phase = "idle" /\ now' >= b.cooldownUntil)
                    => /\ a.phase = "candidate"
                       /\ a.candidatePose = label
                       /\ a.candidateSince = now'
                 /\ (b.phase = "candidate" /\ b.candidatePose = label
                       /\ now' - b.candidateSince < POSE_DWELL_MS)
                    => /\ a.phase = "candidate"
                       /\ a.candidatePose = label
                       /\ a.candidateSince = b.candidateSince
                 /\ (b.phase = "candidate" /\ b.candidatePose = label
                       /\ now' - b.candidateSince >= POSE_DWELL_MS)
                    => /\ a.phase = "locked"
                       /\ a.lockedPose = label
                       /\ a.lockedSince = now'
                       /\ a.candidateSince = b.candidateSince
                 /\ (b.phase = "locked" /\ b.lockedPose = label)
                    => /\ a.phase = "locked"
                       /\ a.lockedPose = label
                       /\ a.lockedSince = b.lockedSince]_vars

(* A slot locked on a label in an earlier frame, more than POSE_DWELL_MS    *)
(* after candidateSince, and still locked in a later frame that shows the  *)
(* same label.                                                             *)
C30_Witness ==
    \E p \in DOMAIN poseFSM :
        /\ poseFSM[p].phase = "locked"
        /\ lastDetected[p] = poseFSM[p].lockedPose
        /\ poseFSM[p].lockedPose \notin {NULL, NEUTRAL}
        /\ poseFSM[p].lastSeen = now
        /\ poseFSM[p].lockedSince < now
        /\ poseFSM[p].lockedSince - poseFSM[p].candidateSince > POSE_DWELL_MS

(* C31: a call of fsmUpdate on a candidate slot with a label other than    *)
(* the candidate label leaves the slot candidate for the new label with    *)
(* candidateSince the time of the call, so the dwell of the new label      *)
(* starts at that call and none of the old label's dwell is carried over.  *)
C31_SwitchRestartsDwell ==
    [][\A p \in DOMAIN poseFSM' :
          (/\ After(p).lastSeen = now'
           /\ Before(p).phase = "candidate"
           /\ Truthy(lastDetected'[p])
           /\ lastDetected'[p] # Before(p).candidatePose)
          => /\ After(p).phase = "candidate"
             /\ After(p).candidatePose = lastDetected'[p]
             /\ After(p).candidateSince = now'
             /\ After(p).lockedPose = Before(p).lockedPose]_vars

(* A slot whose last call found it candidate for one label and switched    *)
(* it to the label detected.                                               *)
C31_Witness ==
    \E p \in DOMAIN poseFSM :
        /\ p \in DOMAIN fsmBefore
        /\ fsmBefore[p].phase = "candidate"
        /\ fsmBefore[p].candidatePose \in POSES
        /\ lastDetected[p] \in POSES
        /\ lastDetected[p] # fsmBefore[p].candidatePose
        /\ poseFSM[p].phase = "candidate"
        /\ poseFSM[p].candidatePose = lastDetected[p]
        /\ poseFSM[p].candidateSince = now

(* The slot of the frame-after-frame specification, once it has an entry. *)
LiveSlot == fsmEntry(poseFSM, LivePid, now)
LiveSeen == IF LivePid \in DOMAIN lastDetected
            THEN lastDetected[LivePid] ELSE NULL
FramesLeft == MaxLiveCalls - calls

(* No pose is detected: the detection is null or undefined, or it is the   *)
(* 'neutral' that analyzeState returns when no pose is found.              *)
NoPoseSeen == LiveSeen \in {NULL, UNDEFINED, NEUTRAL}

(* C32: while frames keep arriving and the clock advances, a slot in       *)
(* cooldown returns to idle; a locked slot that detects something other    *)
(* than its locked label unlocks unless a later frame shows the locked     *)
(* label again; a candidate for which no pose is detected returns to idle  *)
(* unless a later frame detects a pose.  Each is required from every state *)
(* that still has the frames ahead that the longest wait of the phase      *)
(* takes.                                                                  *)
C32_NoPhaseStalls ==
    /\ (LiveSlot.phase = "cooldown"
          /\ FramesLeft >= FramesFor(STICKER_COOLDOWN_MS))
        ~> (LiveSlot.phase = "idle")
    /\ (LiveSlot.phase = "locked" /\ LiveSeen # LiveSlot.lockedPose
          /\ FramesLeft >= FramesFor(STICKER_MIN_SHOW_MS + GRACE_MS))
        ~> (LiveSlot.phase = "cooldown" \/ LiveSeen = LiveSlot.lockedPose)
    /\ (LiveSlot.phase = "candidate" /\ NoPoseSeen
          /\ FramesLeft >= FramesFor(GRACE_MS + 1))
        ~> (LiveSlot.phase = "idle" \/ ~NoPoseSeen)

(* The index in the returned array (poses, counted from 1) of current      *)
(* skeleton i, and whether skeleton i is within the threshold of some      *)
(* previous slot.                                                          *)
ReturnedIndex(i) ==
    Cardinality({s \in 1..SlotOf(i) : lastReordered[s] # << >>})
NearSomeSlot(i) ==
    \E j \in 1..Len(lastPrevious) :
        ScoreBelow(calculatePoseSimilarity(lastResults[i], lastPrevious[j]),
                   MATCH_MAX_DIST)

(* C33: no assignment pairs a current skeleton with a previous slot at a   *)
(* cost of 200 or more or of Infinity; a current skeleton that is not      *)
(* within the threshold of any previous slot is matched to none of them    *)
(* and is placed as an unmatched skeleton, in a slot no matched skeleton   *)
(* holds, and returned; and the call returns all the current skeletons.    *)
C33_FarSkeletonUnmatched ==
    /\ \A k \in 1..Len(matchLog) :
          ScoreBelow(calculatePoseSimilarity(lastResults[matchLog[k][1]],
                                             lastPrevious[matchLog[k][2]]),
                     MATCH_MAX_DIST)
    /\ \A i \in 1..Len(lastResults) :
          (Len(lastPrevious) > 0 /\ ~NearSomeSlot(i))
          => /\ i \in UnmatchedCurrent
             /\ SlotOf(i) \notin MatchedSlots
             /\ ReturnedIndex(i) \in 1..Len(poses)
             /\ poses[ReturnedIndex(i)] = lastResults[i]
    /\ posesKind = ARRAY
    /\ Len(poses) = Len(lastResults)

(* One previous slot and two current skeletons, the first at a cost of     *)
(* exactly 200 from it and the second sharing no confident anchor joint    *)
(* with it: neither is matched and both are returned.                      *)
C33_Witness ==
    /\ Len(lastPrevious) = 1
    /\ Len(lastResults) = 2
    /\ LET first == calculatePoseSimilarity(lastResults[1], lastPrevious[1])
       IN  first.n > 0 /\ first.total = MATCH_MAX_DIST * first.n
    /\ calculatePoseSimilarity(lastResults[2], lastPrevious[1]) = Infinity
    /\ matchLog = << >>
    /\ poses = lastResults

(* The animation store after updateStickerAnim(personId, lockedPose) at    *)
(* time t.                                                                 *)
AnimStoreAfter(anim, personId, lockedPose, t) ==
    (personId :> updateStickerAnim(anim, personId, lockedPose, t)) @@ anim

(* C34: in every reachable state, for every slot, locked pose and clock    *)
(* value, updateStickerAnim called twice in a row leaves the slot's entry  *)
(* (phase, t0, dur, from, to, scale, currentPose, currentImage) as the     *)
(* first call left it.                                                     *)
C34_AnimIdempotentAtFixedTime ==
    \A personId \in AnimPids, lockedPose \in AnimInputs,
       d \in AnimDeltas \cup {0} :
        LET once == AnimStoreAfter(stickerAnim, personId, lockedPose, now + d)
        IN  updateStickerAnim(once, personId, lockedPose, now + d)
              = once[personId]

(* A slot part-way through its exit, scaled below 1, on which a call one   *)
(* frame interval later changes the scale.                                 *)
C34_Witness ==
    \E personId \in DOMAIN stickerAnim :
        /\ stickerAnim[personId].phase = "out"
        /\ stickerAnim[personId].t0 < now
        /\ RatLess(stickerAnim[personId].scale, One)
        /\ \E d \in AnimDeltas :
              LET A == updateStickerAnim(stickerAnim, personId, NULL, now + d)
              IN  /\ A.phase = "out"
                  /\ A.scale # stickerAnim[personId].scale

(* The entries fsmUpdate and updateStickerAnim compute for slot pid in a   *)
(* frame when the two stores hold nothing but that slot's own entries: the *)
(* detection is the slot's own, the locked pose passed to the animation    *)
(* the slot's own.                                                         *)
OwnEntry(store, pid) ==
    IF pid \in DOMAIN store THEN (pid :> store[pid]) ELSE << >>
AloneFsm(pid) ==
    fsmUpdate(OwnEntry(poseFSM, pid), pid, personStates'[pid + 1], NoInfo, now')
AloneAnim(pid) ==
    updateStickerAnim(OwnEntry(stickerAnim, pid), pid, AloneFsm(pid).lockedPose,
                      now')

(* C35: in every frame, the fsmUpdate and updateStickerAnim calls made for *)
(* a slot leave that slot's FSM and animation entries as they would be had *)
(* the calls for the other slots of the frame not been made and the other  *)
(* slots' entries not existed (they are computed from the slot's own       *)
(* entries, its own detection and the clock), and the entries of the slots *)
(* the frame makes no call for are left as they were.                      *)
C35_SlotsComputedAlone ==
    [][frameCount' = frameCount + 1
       => /\ ~drawThrew'
          /\ DOMAIN poseFSM' = DOMAIN poseFSM \cup (0..(Len(poses) - 1))
          /\ DOMAIN stickerAnim' = DOMAIN stickerAnim \cup (0..(Len(poses) - 1))
          /\ \A pid \in 0..(Len(poses) - 1) :
                /\ poseFSM'[pid] = AloneFsm(pid)
                /\ stickerAnim'[pid] = AloneAnim(pid)
          /\ \A pid \in DOMAIN poseFSM :
                pid >= Len(poses) => poseFSM'[pid] = poseFSM[pid]
          /\ \A pid \in DOMAIN stickerAnim :
                pid >= Len(poses) => stickerAnim'[pid] = stickerAnim[pid]]_vars

(* Two slots processed by the same frame with different FSM entries and    *)
(* different animation entries: slot 0 locked and shown, slot 1 a          *)
(* candidate for another pose and hidden.                                  *)
C35_Witness ==
    /\ Len(poses) = 2
    /\ {0, 1} \subseteq DOMAIN poseFSM
    /\ {0, 1} \subseteq DOMAIN stickerAnim
    /\ poseFSM[0].phase = "locked"
    /\ poseFSM[0].lastSeen = now
    /\ poseFSM[1].phase = "candidate"
    /\ poseFSM[1].lastSeen = now
    /\ poseFSM[1].candidatePose # poseFSM[0].lockedPose
    /\ stickerAnim[0].phase \in {"in", "steady"}
    /\ stickerAnim[1].phase = "hidden"

(* C36: every message handled gets exactly one reply, fixed by what the    *)
(* message is: invalid JSON the error invalid_json, a JSON value that is   *)
(* not an object or an object of another type than ping and osc the error  *)
(* unsupported_message, ping a pong, osc a sent; and only a message of     *)
(* type osc sends OSC messages.                                            *)
C36_OneReplyPerMessage ==
    bridgeMsg # << >>
    => LET isObject == bridgeMsg.kind = "object"
           type == IF isObject THEN bridgeMsg.type ELSE UNDEFINED
       IN  /\ Len(bridgeReply) = 1
           /\ bridgeMsg.kind = "invalid_json"
                => bridgeReply[1] = [type |-> "error", reason |-> "invalid_json"]
           /\ (bridgeMsg.kind = "not_object"
                  \/ (isObject /\ type \notin {"ping", "osc"}))
                => bridgeReply[1]
                     = [type |-> "error", reason |-> "unsupported_message"]
           /\ (isObject /\ type = "ping") => bridgeReply[1] = [type |-> "pong"]
           /\ (isObject /\ type = "osc")
                => /\ bridgeReply[1].type = "sent"
                   /\ DOMAIN bridgeReply[1] = {"type", "count"}
           /\ ~(isObject /\ type = "osc") => bridgeOsc = << >>

(* An object without a type answered with unsupported_message. *)
C36_Witness ==
    /\ bridgeMsg # << >>
    /\ bridgeMsg.kind = "object"
    /\ bridgeMsg.type = UNDEFINED
    /\ bridgeReply = <<[type |-> "error", reason |-> "unsupported_message"]>>
    /\ bridgeOsc = << >>

(* C37: the array returned by matchPosesToPreviousFrame (the new poses)    *)
(* has the length of the current list and lists its skeletons, each once,  *)
(* in some order.                                                          *)
C37_ReturnsPermutation ==
    /\ Len(poses) = Len(lastResults)
    /\ IsPermutation(poses, lastResults)

(* Two different current skeletons returned in the opposite order, one of  *)
(* them matched and the other not.                                         *)
C37_Witness ==
    /\ Len(lastResults) = 2
    /\ lastResults[1] # lastResults[2]
    /\ poses = <<lastResults[2], lastResults[1]>>
    /\ Len(matchLog) = 1

(* C38: the payloads handed to the socket followed by those still queued   *)
(* are the payloads passed to sendOsc, each once and in the order they     *)
(* were passed, so that a queued payload is sent once, after the payloads  *)
(* queued before it and before every payload passed after the open that    *)
(* flushed it; and an open socket leaves nothing queued.                   *)
C38_QueueFlushedInOrder ==
    /\ wsWire \o wsQueue = [i \in 1..wsPassed |-> i]
    /\ (oscWS # NoSocket /\ oscWS.readyState = 1) => wsQueue = << >>
    /\ \A k \in 1..Len(wsQueuedLog) :
          Cardinality({i \in 1..Len(wsWire) : wsWire[i] = wsQueuedLog[k]})
            + Cardinality({i \in 1..Len(wsQueue) : wsQueue[i] = wsQueuedLog[k]})
          = 1

(* new WebSocket() failed when the script was loaded: two payloads queued  *)
(* while oscWS was null or connecting, sent by the open of the first       *)
(* socket, which a timer made, and a third payload sent directly after     *)
(* them.                                                                   *)
C38_Witness ==
    /\ wsQueuedLog = <<1, 2>>
    /\ wsWire = <<1, 2, 3>>
    /\ wsErrors > 0
    /\ oscWS.id = 1
    /\ oscWS.readyState = 1

(* C39: at the end of every draw, for every slot of poses: a locked pose   *)
(* that is one of the six poses has the animation in phase in or steady    *)
(* with currentPose the locked pose, and personOverlayImages holds an      *)
(* image for the slot exactly when its animation is not hidden.            *)
C39_AnimAgreesWithLock ==
    [][frameCount' = frameCount + 1
       => \A i \in 1..Len(poses') :
             LET pid == i - 1
                 locked == IF pid \in DOMAIN poseFSM'
                           THEN poseFSM'[pid].lockedPose ELSE NULL
                 A == animEntry(stickerAnim', pid)
             IN  /\ (Truthy(locked) /\ locked # NEUTRAL)
                      => /\ A.phase \in {"in", "steady"}
                         /\ A.currentPose = locked
                 /\ i \in 1..Len(personOverlayImages')
                 /\ (personOverlayImages'[i] # NULL) <=> (A.phase # "hidden")]_vars

(* C40: a rendered frame calls emaPoint at most once on every accumulator  *)
(* (slot, key), whichever layers are shown.                                *)
C40_OneUpdatePerFrame ==
    \A pid \in DOMAIN emaCounts :
        \A key \in DOMAIN emaCounts[pid] : emaCounts[pid][key] <= 1

============================================================================
